---- MODULE Spec2Model ----
(***************************************************************************)
(* Code documentation generator: directory scan with exclusion rules,      *)
(* pattern-based symbol extraction, aggregation into a project analysis,   *)
(* description synthesis with an optional Gemini backend, README assembly. *)
(*                                                                         *)
(* Python strings are modelled by their code points: Chars gives the code  *)
(* points of every string literal the model uses, Str is its inverse on    *)
(* those literals.  Paths are sequences of component names (Path.parts).   *)
(***************************************************************************)
EXTENDS Naturals, Integers, Sequences, FiniteSets, TLC

VARIABLES
    project_path,      \* CodeAnalyzer.project_path: parts of the resolved root
    fs,                \* files on disk below the root, as relative parts
    gemini_model,      \* AIDocumentationEngine.gemini_model is not None
    pc,                \* position of the generate_readme run
    code_files,        \* result of get_code_files (absolute parts, in order)
    visited,           \* directories os.walk listed (relative parts)
    project_analysis,  \* the dict built by _analyze_project
    idx,               \* loop index i of _analyze_project
    log,               \* per loop iteration: the file, what its read gave,
                       \* what the backend call did
    overview_response, \* what generate_content gave for the overview prompt
    ai_overview,       \* return value of generate_project_overview
    readme,            \* return value of generate_readme
    written,           \* README.md was written
    raised,            \* exception that escaped generate_readme, or "none"
    ucall,             \* unit harness: the call under test
    uret,              \* unit harness: its return value
    readme_again,      \* a second _build_comprehensive_readme of the same data
    cli_args,          \* cli.main: the parsed arguments of the generate command
    exit_code          \* cli.main: exit code of the process, -1 while it runs

vars == <<project_path, fs, gemini_model, pc, code_files, visited,
          project_analysis, idx, log, overview_response, ai_overview,
          readme, written, raised, ucall, uret, readme_again,
          cli_args, exit_code>>

pipeVars == <<project_path, fs, gemini_model, pc, code_files, visited,
              project_analysis, idx, log, overview_response, ai_overview,
              readme, written, raised>>

unitVars == <<ucall, uret, readme_again>>

cliVars == <<cli_args, exit_code>>

-----------------------------------------------------------------------------
(* Bounds of the model *)

MaxFiles == 2

\* files in a project tree of the runs checked for progress
MaxLiveFiles == 1

-----------------------------------------------------------------------------
(* Python str values *)

Chars(s) ==
    CASE s = "/" -> <<47>>
      [] s = "home" -> <<104, 111, 109, 101>>
      [] s = "tmp" -> <<116, 109, 112>>
      [] s = "srv" -> <<115, 114, 118>>
      [] s = "proj" -> <<112, 114, 111, 106>>
      [] s = "build" -> <<98, 117, 105, 108, 100>>
      [] s = "a" -> <<97>>
      [] s = "a-b" -> <<97, 45, 98>>
      [] s = "src" -> <<115, 114, 99>>
      [] s = "node_modules" -> <<110, 111, 100, 101, 95, 109, 111, 100, 117, 108, 101, 115>>
      [] s = "a.py" -> <<97, 46, 112, 121>>
      [] s = "x.py" -> <<120, 46, 112, 121>>
      [] s = "A.PY" -> <<65, 46, 80, 89>>
      [] s = "ignored.js" -> <<105, 103, 110, 111, 114, 101, 100, 46, 106, 115>>
      [] s = "setup.py" -> <<115, 101, 116, 117, 112, 46, 112, 121>>
      [] s = "requirements.txt" -> <<114, 101, 113, 117, 105, 114, 101, 109, 101, 110, 116, 115, 46, 116, 120, 116>>
      [] s = "app.js" -> <<97, 112, 112, 46, 106, 115>>
      [] s = "main.py" -> <<109, 97, 105, 110, 46, 112, 121>>
      [] s = "README.md" -> <<82, 69, 65, 68, 77, 69, 46, 109, 100>>
      [] s = "test.js" -> <<116, 101, 115, 116, 46, 106, 115>>
      [] s = "gen.py" -> <<103, 101, 110, 46, 112, 121>>
      [] s = "lib.c" -> <<108, 105, 98, 46, 99>>
      [] s = "Main.java" -> <<77, 97, 105, 110, 46, 106, 97, 118, 97>>
      [] s = ".py" -> <<46, 112, 121>>
      [] s = ".js" -> <<46, 106, 115>>
      [] s = ".ts" -> <<46, 116, 115>>
      [] s = ".jsx" -> <<46, 106, 115, 120>>
      [] s = ".tsx" -> <<46, 116, 115, 120>>
      [] s = ".java" -> <<46, 106, 97, 118, 97>>
      [] s = ".cpp" -> <<46, 99, 112, 112>>
      [] s = ".c" -> <<46, 99>>
      [] s = ".h" -> <<46, 104>>
      [] s = ".cs" -> <<46, 99, 115>>
      [] s = ".php" -> <<46, 112, 104, 112>>
      [] s = ".rb" -> <<46, 114, 98>>
      [] s = ".go" -> <<46, 103, 111>>
      [] s = ".rs" -> <<46, 114, 115>>
      [] s = ".kt" -> <<46, 107, 116>>
      [] s = ".swift" -> <<46, 115, 119, 105, 102, 116>>
      [] s = ".dart" -> <<46, 100, 97, 114, 116>>
      [] s = "" -> <<>>
      [] s = "def foo():\nclass Bar:" -> <<100, 101, 102, 32, 102, 111, 111, 40, 41, 58, 10, 99, 108, 97, 115, 115, 32, 66, 97, 114, 58>>
      [] s = "def my_function():\n    pass" -> <<100, 101, 102, 32, 109, 121, 95, 102, 117, 110, 99, 116, 105, 111, 110, 40, 41, 58, 10, 32, 32, 32, 32, 112, 97, 115, 115>>
      [] s = "class MyClass:\n    pass" -> <<99, 108, 97, 115, 115, 32, 77, 121, 67, 108, 97, 115, 115, 58, 10, 32, 32, 32, 32, 112, 97, 115, 115>>
      [] s = "def f(x):\ndef f(y):\n" -> <<100, 101, 102, 32, 102, 40, 120, 41, 58, 10, 100, 101, 102, 32, 102, 40, 121, 41, 58, 10>>
      [] s = "from os import os\nimport flask" -> <<102, 114, 111, 109, 32, 111, 115, 32, 105, 109, 112, 111, 114, 116, 32, 111, 115, 10, 105, 109, 112, 111, 114, 116, 32, 102, 108, 97, 115, 107>>
      [] s = "function go() {}\nconst go = () => go" -> <<102, 117, 110, 99, 116, 105, 111, 110, 32, 103, 111, 40, 41, 32, 123, 125, 10, 99, 111, 110, 115, 116, 32, 103, 111, 32, 61, 32, 40, 41, 32, 61, 62, 32, 103, 111>>
      [] s = "import x from 'lib'\nclass K {" -> <<105, 109, 112, 111, 114, 116, 32, 120, 32, 102, 114, 111, 109, 32, 39, 108, 105, 98, 39, 10, 99, 108, 97, 115, 115, 32, 75, 32, 123>>
      [] s = "y => require('lib')" -> <<121, 32, 61, 62, 32, 114, 101, 113, 117, 105, 114, 101, 40, 39, 108, 105, 98, 39, 41>>
      [] s = "import flask\nimport numpy\nimport requests" -> <<105, 109, 112, 111, 114, 116, 32, 102, 108, 97, 115, 107, 10, 105, 109, 112, 111, 114, 116, 32, 110, 117, 109, 112, 121, 10, 105, 109, 112, 111, 114, 116, 32, 114, 101, 113, 117, 101, 115, 116, 115>>
      [] s = " Parses input. " -> <<32, 80, 97, 114, 115, 101, 115, 32, 105, 110, 112, 117, 116, 46, 32>>
      [] s = "Parses input." -> <<80, 97, 114, 115, 101, 115, 32, 105, 110, 112, 117, 116, 46>>
      [] s = "Bar" -> <<66, 97, 114>>
      [] s = "K" -> <<75>>
      [] s = "MyClass" -> <<77, 121, 67, 108, 97, 115, 115>>
      [] s = "f" -> <<102>>
      [] s = "flask" -> <<102, 108, 97, 115, 107>>
      [] s = "foo" -> <<102, 111, 111>>
      [] s = "go" -> <<103, 111>>
      [] s = "lib" -> <<108, 105, 98>>
      [] s = "my_function" -> <<109, 121, 95, 102, 117, 110, 99, 116, 105, 111, 110>>
      [] s = "numpy" -> <<110, 117, 109, 112, 121>>
      [] s = "os" -> <<111, 115>>
      [] s = "requests" -> <<114, 101, 113, 117, 101, 115, 116, 115>>
      [] s = "x" -> <<120>>
      [] s = "y" -> <<121>>
      [] s = "b07" -> <<98, 48, 55>>
      [] s = "b03" -> <<98, 48, 51>>
      [] s = ".local" -> <<46, 108, 111, 99, 97, 108>>
      [] s = "b11" -> <<98, 49, 49>>
      [] s = "b01" -> <<98, 48, 49>>
      [] s = "typing" -> <<116, 121, 112, 105, 110, 103>>
      [] s = "b09" -> <<98, 48, 57>>
      [] s = "b05" -> <<98, 48, 53>>
      [] s = "b13" -> <<98, 49, 51>>
      [] s = "Zlib" -> <<90, 108, 105, 98>>
      [] s = "b02" -> <<98, 48, 50>>
      [] s = "b04" -> <<98, 48, 52>>
      [] s = "b06" -> <<98, 48, 54>>
      [] s = "b08" -> <<98, 48, 56>>
      [] s = "b10" -> <<98, 49, 48>>
      [] s = "b12" -> <<98, 49, 50>>
      [] s = "b14" -> <<98, 49, 52>>
      [] s = "json" -> <<106, 115, 111, 110>>
      [] s = "b15" -> <<98, 49, 53>>
      [] s = "api" -> <<97, 112, 105>>
      [] s = "utils" -> <<117, 116, 105, 108, 115>>
      [] s = "ui" -> <<117, 105>>
      [] s = "Api" -> <<65, 112, 105>>
      [] s = "Utils" -> <<85, 116, 105, 108, 115>>
      [] s = "Ui" -> <<85, 105>>
      [] s = "Python" -> <<80, 121, 116, 104, 111, 110>>
      [] s = "JavaScript" -> <<74, 97, 118, 97, 83, 99, 114, 105, 112, 116>>
      [] s = "TypeScript" -> <<84, 121, 112, 101, 83, 99, 114, 105, 112, 116>>
      [] s = "React JSX" -> <<82, 101, 97, 99, 116, 32, 74, 83, 88>>
      [] s = "React TSX" -> <<82, 101, 97, 99, 116, 32, 84, 83, 88>>
      [] s = "Java" -> <<74, 97, 118, 97>>
      [] s = "C++" -> <<67, 43, 43>>
      [] s = "C" -> <<67>>
      [] s = "C/C++ Header" -> <<67, 47, 67, 43, 43, 32, 72, 101, 97, 100, 101, 114>>
      [] s = "C#" -> <<67, 35>>
      [] s = "PHP" -> <<80, 72, 80>>
      [] s = "Ruby" -> <<82, 117, 98, 121>>
      [] s = "Go" -> <<71, 111>>
      [] s = "Rust" -> <<82, 117, 115, 116>>
      [] s = "Kotlin" -> <<75, 111, 116, 108, 105, 110>>
      [] s = "Swift" -> <<83, 119, 105, 102, 116>>
      [] s = "Dart" -> <<68, 97, 114, 116>>
      [] s = "Unknown" -> <<85, 110, 107, 110, 111, 119, 110>>
      [] s = "root" -> <<114, 111, 111, 116>>
      [] s = "sys" -> <<115, 121, 115>>
      [] s = "re" -> <<114, 101>>
      [] s = "cli" -> <<99, 108, 105>>
      [] s = "command" -> <<99, 111, 109, 109, 97, 110, 100>>
      [] s = "app.py" -> <<97, 112, 112, 46, 112, 121>>
      [] s = "cli.py" -> <<99, 108, 105, 46, 112, 121>>
      [] s = "Software Application" -> <<83, 111, 102, 116, 119, 97, 114, 101, 32, 65, 112, 112, 108, 105, 99, 97, 116, 105, 111, 110>>
      [] s = "software application" -> <<115, 111, 102, 116, 119, 97, 114, 101, 32, 97, 112, 112, 108, 105, 99, 97, 116, 105, 111, 110>>
      [] s = "Web Application" -> <<87, 101, 98, 32, 65, 112, 112, 108, 105, 99, 97, 116, 105, 111, 110>>
      [] s = "web application" -> <<119, 101, 98, 32, 97, 112, 112, 108, 105, 99, 97, 116, 105, 111, 110>>
      [] s = "Command Line Tool" -> <<67, 111, 109, 109, 97, 110, 100, 32, 76, 105, 110, 101, 32, 84, 111, 111, 108>>
      [] s = "command line tool" -> <<99, 111, 109, 109, 97, 110, 100, 32, 108, 105, 110, 101, 32, 116, 111, 111, 108>>
      [] s = "Data Science Project" -> <<68, 97, 116, 97, 32, 83, 99, 105, 101, 110, 99, 101, 32, 80, 114, 111, 106, 101, 99, 116>>
      [] s = "data science project" -> <<100, 97, 116, 97, 32, 115, 99, 105, 101, 110, 99, 101, 32, 112, 114, 111, 106, 101, 99, 116>>
      [] s = "Desktop/GUI Application" -> <<68, 101, 115, 107, 116, 111, 112, 47, 71, 85, 73, 32, 65, 112, 112, 108, 105, 99, 97, 116, 105, 111, 110>>
      [] s = "desktop/gui application" -> <<100, 101, 115, 107, 116, 111, 112, 47, 103, 117, 105, 32, 97, 112, 112, 108, 105, 99, 97, 116, 105, 111, 110>>
      [] s = "def" -> <<100, 101, 102>>
      [] s = "class" -> <<99, 108, 97, 115, 115>>
      [] s = "import" -> <<105, 109, 112, 111, 114, 116>>
      [] s = "from" -> <<102, 114, 111, 109>>
      [] s = "function" -> <<102, 117, 110, 99, 116, 105, 111, 110>>
      [] s = "const" -> <<99, 111, 110, 115, 116>>
      [] s = "require" -> <<114, 101, 113, 117, 105, 114, 101>>
      [] s = "=>" -> <<61, 62>>
      [] s = ".PY" -> <<46, 80, 89>>
KnownStrings ==
    {"/", "home", "tmp", "srv", "proj", "build", "a", "a-b", "src", "node_modules", "a.py", "x.py", "A.PY", "ignored.js", "setup.py", "requirements.txt", "app.js", "main.py", "README.md", "test.js", "gen.py", "lib.c", "Main.java", ".py", ".js", ".ts", ".jsx", ".tsx", ".java", ".cpp", ".c", ".h", ".cs", ".php", ".rb", ".go", ".rs", ".kt", ".swift", ".dart", "", "def foo():\nclass Bar:", "def my_function():\n    pass", "class MyClass:\n    pass", "def f(x):\ndef f(y):\n", "from os import os\nimport flask", "function go() {}\nconst go = () => go", "import x from 'lib'\nclass K {", "y => require('lib')", "import flask\nimport numpy\nimport requests", " Parses input. ", "Parses input.", "Bar", "K", "MyClass", "f", "flask", "foo", "go", "lib", "my_function", "numpy", "os", "requests", "x", "y", "b07", "b03", ".local", "b11", "b01", "typing", "b09", "b05", "b13", "Zlib", "b02", "b04", "b06", "b08", "b10", "b12", "b14", "json", "b15", "api", "utils", "ui", "Api", "Utils", "Ui", "Python", "JavaScript", "TypeScript", "React JSX", "React TSX", "Java", "C++", "C", "C/C++ Header", "C#", "PHP", "Ruby", "Go", "Rust", "Kotlin", "Swift", "Dart", "Unknown", "root", "sys", "re", "cli", "command", "app.py", "cli.py", "Software Application", "software application", "Web Application", "web application", "Command Line Tool", "command line tool", "Data Science Project", "data science project", "Desktop/GUI Application", "desktop/gui application", "def", "class", "import", "from", "function", "const", "require", "=>", ".PY"}

Str(codes) == CHOOSE s \in KnownStrings : Chars(s) = codes

Min(S) == CHOOSE x \in S : \A y \in S : x <= y
Max(S) == CHOOSE x \in S : \A y \in S : x >= y

Range(q) == {q[i] : i \in 1..Len(q)}

\* str.lower() on ASCII: 'A'..'Z' (65..90) map to 'a'..'z'
LowerCase(codes) ==
    [i \in 1..Len(codes) |->
        IF codes[i] \in 65..90 THEN codes[i] + 32 ELSE codes[i]]

\* Python's < on str (and on lists of ints): first difference decides, a
\* proper prefix is smaller
SeqLess(a, b) ==
    \E k \in 1..(Len(b)) :
        /\ \A j \in 1..(k - 1) : j <= Len(a) /\ a[j] = b[j]
        /\ \/ k = Len(a) + 1
           \/ k <= Len(a) /\ a[k] < b[k]

-----------------------------------------------------------------------------
(* pathlib *)

\* Path.name: the final component
Name(path) == IF path = <<>> THEN "" ELSE path[Len(path)]

\* Path.suffix: from the last '.' (46) of the name, unless that dot leads or
\* ends the name
Suffix(path) ==
    LET c == Chars(Name(path))
        dots == {i \in 1..Len(c) : c[i] = 46}
    IN  IF dots = {} THEN <<>>
        ELSE IF Max(dots) = 1 \/ Max(dots) = Len(c) THEN <<>>
        ELSE SubSeq(c, Max(dots), Len(c))

\* Path.__lt__ compares the lists of parts, each part as a str
PartsLess(p, q) ==
    \E k \in 1..Len(q) :
        /\ \A j \in 1..(k - 1) : j <= Len(p) /\ p[j] = q[j]
        /\ \/ k = Len(p) + 1
           \/ k <= Len(p) /\ SeqLess(Chars(p[k]), Chars(q[k]))

\* str(path) of an absolute POSIX path: "/" + "/".join(parts[1:])
RECURSIVE JoinParts(_, _)
JoinParts(path, i) ==
    IF i > Len(path) THEN <<>>
    ELSE Chars(path[i]) \o (IF i < Len(path) THEN <<47>> ELSE <<>>)
             \o JoinParts(path, i + 1)

PathString(path) ==
    IF path # <<>> /\ path[1] = "/"
    THEN <<47>> \o JoinParts(Tail(path), 1)
    ELSE JoinParts(path, 1)

-----------------------------------------------------------------------------
(* CodeAnalyzer: exclusion policy *)

SUPPORTED_EXTENSIONS ==
    {".py", ".js", ".ts", ".jsx", ".tsx", ".java", ".cpp", ".c", ".h",
     ".cs", ".php", ".rb", ".go", ".rs", ".kt", ".swift", ".dart"}

IGNORE_DIRS ==
    {".venv", "venv", ".env", "env", "node_modules", ".git", ".idea",
     "__pycache__", ".pytest_cache", "build", "dist", "target",
     ".gradle", ".mvn", "bin", "obj", ".vs", ".vscode", "coverage",
     ".nyc_output", "logs", "log", ".log", "temp", "tmp", ".tmp"}

IGNORE_FILES ==
    {".gitignore", ".env", ".env.local", ".env.development", ".env.production",
     "package-lock.json", "yarn.lock", "poetry.lock", "Pipfile.lock",
     "requirements.txt", "setup.py", "setup.cfg", "pyproject.toml",
     "LICENSE", "README.md", "CHANGELOG.md", ".DS_Store"}

\* mutant: the loop stops before the last part
AnyPartIgnoredButLast(path, i) ==
    \E j \in i..(Len(path) - 1) : path[j] \in IGNORE_DIRS

\* for part in path.parts: if part in IGNORE_DIRS: return True
RECURSIVE AnyPartIgnored(_, _)
AnyPartIgnored(path, i) ==
    IF i > Len(path) THEN FALSE
    ELSE IF path[i] \in IGNORE_DIRS THEN TRUE
    ELSE AnyPartIgnored(path, i + 1)

should_ignore_path(path) ==
    IF AnyPartIgnored(path, 1) THEN TRUE ELSE Name(path) \in IGNORE_FILES

\* file_path.suffix.lower() in SUPPORTED_EXTENSIONS
SupportedSuffix(path) ==
    \E e \in SUPPORTED_EXTENSIONS : Chars(e) = LowerCase(Suffix(path))

-----------------------------------------------------------------------------
(* CodeAnalyzer.get_code_files: os.walk over the tree below project_path *)

\* the directories of a tree given by its files: every proper prefix
DirsOf(tree) ==
    UNION {{SubSeq(f, 1, k) : k \in 0..(Len(f) - 1)} : f \in tree}

IsChild(x, d) == Len(x) = Len(d) + 1 /\ SubSeq(x, 1, Len(d)) = d

\* mutant: no pruning, the walk descends everywhere
PruneNothing(dirs) == dirs

\* dirs[:] = [d for d in dirs if d not in IGNORE_DIRS]
PruneDirs(dirs) == {d \in dirs : Name(d) \notin IGNORE_DIRS}

\* one (root, dirs, files) triple of os.walk: the files kept from directory d
KeptFiles(root, tree, d) ==
    {root \o f : f \in {x \in tree : IsChild(x, d) /\
        ~should_ignore_path(root \o x) /\ SupportedSuffix(root \o x)}}

\* os.walk, top-down: list a directory, prune dirs in place, then descend
\* into what is left of dirs
RECURSIVE Walk(_, _, _, _, _)
Walk(root, tree, pending, seen, acc) ==
    IF pending = {} THEN [files |-> acc, visited |-> seen]
    ELSE LET d == CHOOSE x \in pending : TRUE
             subdirs == PruneDirs({x \in DirsOf(tree) : IsChild(x, d)})
         IN  Walk(root, tree, (pending \ {d}) \cup subdirs, seen \cup {d},
                  acc \cup KeptFiles(root, tree, d))

\* mutant: sorted(code_files, key=str)
RECURSIVE SortedByString(_)
SortedByString(S) ==
    IF S = {} THEN <<>>
    ELSE LET m == CHOOSE x \in S : \A y \in S :
                      y = x \/ SeqLess(PathString(x), PathString(y))
         IN  <<m>> \o SortedByString(S \ {m})

\* sorted(code_files): ascending by Path.__lt__
RECURSIVE Sorted(_)
Sorted(S) ==
    IF S = {} THEN <<>>
    ELSE LET m == CHOOSE x \in S : \A y \in S : y = x \/ PartsLess(x, y)
         IN  <<m>> \o Sorted(S \ {m})

get_code_files(root, tree) ==
    LET w == Walk(root, tree, {<<>>}, {}, {})
    IN  [files |-> Sorted(w.files), visited |-> w.visited]

-----------------------------------------------------------------------------
(* re: the patterns of the extractors, matched as re.findall matches them *)

Space      == {9, 10, 11, 12, 13, 32}              \* \s
IdentStart == (65..90) \cup (97..122) \cup {95}    \* [a-zA-Z_]
IdentChar  == IdentStart \cup (48..57)             \* [a-zA-Z0-9_]
DottedChar == IdentChar \cup {46}                  \* [a-zA-Z0-9_.]
NonQuote   == (0..127) \ {34, 39}                  \* [^'"]
Quote      == {34, 39}                             \* ['"]

NoMatch == [ok |-> FALSE, name |-> <<>>, end |-> 0]

\* the literal lit stands at position i of s
LitAt(s, i, lit) ==
    i + Len(lit) - 1 <= Len(s) /\ SubSeq(s, i, i + Len(lit) - 1) = lit

\* a greedy run of characters of the class from position i: where it stops
Skip(s, i, class) ==
    LET stops == {j \in i..Len(s) : s[j] \notin class}
    IN  IF stops = {} THEN Len(s) + 1 ELSE Min(stops)

CharAt(s, i, class) == i <= Len(s) /\ s[i] \in class

\* kw\s+([a-zA-Z_]<chars>*) at position i
KwIdent(s, i, kw, chars) ==
    LET j1 == i + Len(kw)
        j2 == Skip(s, j1, Space)
        j3 == Skip(s, j2 + 1, chars)
    IN  IF LitAt(s, i, kw) /\ j2 > j1 /\ CharAt(s, j2, IdentStart)
        THEN [ok |-> TRUE, name |-> SubSeq(s, j2, j3 - 1), end |-> j3]
        ELSE NoMatch

\* <m>\s*<one character of close>
ThenClose(s, m, close) ==
    LET j == Skip(s, m.end, Space)
    IN  IF m.ok /\ CharAt(s, j, close)
        THEN [ok |-> TRUE, name |-> m.name, end |-> j + 1]
        ELSE NoMatch

\* ['"]([^'"]+)['"] at position q
Quoted(s, q) ==
    LET r == Skip(s, q + 1, NonQuote)
    IN  IF CharAt(s, q, Quote) /\ r > q + 1 /\ r <= Len(s)
        THEN [ok |-> TRUE, name |-> SubSeq(s, q + 1, r - 1), end |-> r + 1]
        ELSE NoMatch

\* from\s+['"]([^'"]+)['"] at position k
FromQuoted(s, k) ==
    LET q == Skip(s, k + 4, Space)
    IN  IF LitAt(s, k, Chars("from")) /\ q > k + 4 THEN Quoted(s, q)
        ELSE NoMatch

MatchAt(pat, s, i) ==
    CASE pat = "py_def" ->        \* def\s+([a-zA-Z_][a-zA-Z0-9_]*)\s*\(
            ThenClose(s, KwIdent(s, i, Chars("def"), IdentChar), {40})
      [] pat = "js_function" ->   \* function\s+([a-zA-Z_][a-zA-Z0-9_]*)\s*\(
            ThenClose(s, KwIdent(s, i, Chars("function"), IdentChar), {40})
      [] pat = "js_const" ->      \* const\s+([a-zA-Z_][a-zA-Z0-9_]*)\s*=\s*\(
            ThenClose(s,
                ThenClose(s, KwIdent(s, i, Chars("const"), IdentChar), {61}),
                {40})
      [] pat = "js_arrow" ->      \* ([a-zA-Z_][a-zA-Z0-9_]*)\s*=>\s*
            LET j3 == Skip(s, i + 1, IdentChar)
                j4 == Skip(s, j3, Space)
            IN  IF CharAt(s, i, IdentStart) /\ LitAt(s, j4, Chars("=>"))
                THEN [ok |-> TRUE, name |-> SubSeq(s, i, j3 - 1),
                      end |-> Skip(s, j4 + 2, Space)]
                ELSE NoMatch
      [] pat = "py_class" ->      \* class\s+([a-zA-Z_][a-zA-Z0-9_]*)\s*[:\(]
            ThenClose(s, KwIdent(s, i, Chars("class"), IdentChar), {58, 40})
      [] pat = "js_class" ->      \* class\s+([a-zA-Z_][a-zA-Z0-9_]*)\s*[{]
            ThenClose(s, KwIdent(s, i, Chars("class"), IdentChar), {123})
      [] pat = "py_import" ->     \* import\s+([a-zA-Z_][a-zA-Z0-9_.]*)
            KwIdent(s, i, Chars("import"), DottedChar)
      [] pat = "py_from" ->       \* from\s+([a-zA-Z_][a-zA-Z0-9_.]*)\s+import
            LET m == KwIdent(s, i, Chars("from"), DottedChar)
                j == Skip(s, m.end, Space)
            IN  IF m.ok /\ j > m.end /\ LitAt(s, j, Chars("import"))
                THEN [ok |-> TRUE, name |-> m.name, end |-> j + 6]
                ELSE NoMatch
      [] pat = "js_import" ->     \* import.*from\s+['"]([^'"]+)['"]
            \* .* is greedy and stays on the line: the last "from" that works
            LET j1 == i + 6
                eol == Skip(s, j1, (0..127) \ {10})
                ks == {k \in j1..eol : FromQuoted(s, k).ok}
            IN  IF LitAt(s, i, Chars("import")) /\ ks # {}
                THEN FromQuoted(s, Max(ks))
                ELSE NoMatch
      [] pat = "js_require" ->    \* require\s*\(\s*['"]([^'"]+)['"]\s*\)
            LET j2 == Skip(s, i + 7, Space)
                j3 == Skip(s, j2 + 1, Space)
            IN  IF LitAt(s, i, Chars("require")) /\ CharAt(s, j2, {40})
                THEN ThenClose(s, Quoted(s, j3), {41})
                ELSE NoMatch

\* re.findall(pattern, content): the group of each match, left to right,
\* the search resuming where the previous match ended
RECURSIVE Findall(_, _, _)
Findall(pat, s, i) ==
    IF i > Len(s) THEN <<>>
    ELSE LET m == MatchAt(pat, s, i)
         IN  IF m.ok THEN <<Str(m.name)>> \o Findall(pat, s, m.end)
             ELSE Findall(pat, s, i + 1)

-----------------------------------------------------------------------------
(* CodeAnalyzer: symbol extraction *)

JsExtensions == {Chars(".js"), Chars(".ts"), Chars(".jsx"), Chars(".tsx")}

\* mutant: list(functions), the matches as found
ListOnly(matches) == {matches}

\* list(set(matches)): every name once, in the order the set iterates,
\* which the language leaves open
ListSet(matches) ==
    LET S == Range(matches)
    IN  {q \in [1..Cardinality(S) -> S] : Range(q) = S}

FunctionMatches(content, extension) ==
    IF extension = Chars(".py") THEN Findall("py_def", content, 1)
    ELSE IF extension \in JsExtensions
    THEN Findall("js_function", content, 1) \o Findall("js_const", content, 1)
             \o Findall("js_arrow", content, 1)
    ELSE <<>>

ClassMatches(content, extension) ==
    IF extension = Chars(".py") THEN Findall("py_class", content, 1)
    ELSE IF extension \in JsExtensions THEN Findall("js_class", content, 1)
    ELSE <<>>

ImportMatches(content, extension) ==
    IF extension = Chars(".py")
    THEN Findall("py_import", content, 1) \o Findall("py_from", content, 1)
    ELSE IF extension \in JsExtensions
    THEN Findall("js_import", content, 1) \o Findall("js_require", content, 1)
    ELSE <<>>

\* each returns the set of lists the call can return
extract_functions(content, extension) ==
    ListSet(FunctionMatches(content, extension))
extract_classes(content, extension) ==
    ListSet(ClassMatches(content, extension))
extract_imports(content, extension) ==
    ListSet(ImportMatches(content, extension))

detect_language(extension) ==
    LET e == LowerCase(extension)
    IN  CASE e = Chars(".py") -> "Python"
          [] e = Chars(".js") -> "JavaScript"
          [] e = Chars(".ts") -> "TypeScript"
          [] e = Chars(".jsx") -> "React JSX"
          [] e = Chars(".tsx") -> "React TSX"
          [] e = Chars(".java") -> "Java"
          [] e = Chars(".cpp") -> "C++"
          [] e = Chars(".c") -> "C"
          [] e = Chars(".h") -> "C/C++ Header"
          [] e = Chars(".cs") -> "C#"
          [] e = Chars(".php") -> "PHP"
          [] e = Chars(".rb") -> "Ruby"
          [] e = Chars(".go") -> "Go"
          [] e = Chars(".rs") -> "Rust"
          [] e = Chars(".kt") -> "Kotlin"
          [] e = Chars(".swift") -> "Swift"
          [] e = Chars(".dart") -> "Dart"
          [] OTHER -> "Unknown"

\* content.split('\n'): the segments between the '\n' (10), the empty ones
\* included
SplitLines(content) ==
    LET n == Len(content)
        breaks == {i \in 1..n : content[i] = 10}
        Break(k) == IF k = 0 THEN 0
                    ELSE IF k > Cardinality(breaks) THEN n + 1
                    ELSE CHOOSE i \in breaks : Cardinality({j \in breaks : j < i}) = k - 1
    IN  [k \in 1..(Cardinality(breaks) + 1) |->
            SubSeq(content, Break(k - 1) + 1, Break(k) - 1)]

\* mutant: len(content.splitlines()), no segment after a final '\n'
LineCountSplitlines(content) ==
    LET segments == SplitLines(content)
    IN  IF segments[Len(segments)] = <<>> THEN Len(segments) - 1 ELSE Len(segments)

\* lines 55 and 60: len(content.split('\n'))
LineCount(content) == Len(SplitLines(content))

-----------------------------------------------------------------------------
(* AIDocumentationEngine: per-file description *)

\* str.strip(): drop leading and trailing whitespace
Strip(codes) ==
    LET keep == {i \in 1..Len(codes) : codes[i] \notin Space}
    IN  IF keep = {} THEN <<>> ELSE SubSeq(codes, Min(keep), Max(keep))

\* critical_deps (lines 344-345): the imports that are not standard-library
\* names, in the order of the import list
RECURSIVE CriticalDeps(_)
CriticalDeps(imports) ==
    IF imports = <<>> THEN <<>>
    ELSE LET imp == Head(imports)
             c == Chars(imp)
         IN  (IF ~(Len(c) > 0 /\ c[1] = 46) /\
                 imp \notin {"os", "sys", "re", "json"}
              THEN <<imp>> ELSE <<>>) \o CriticalDeps(Tail(imports))

Take(q, n) == SubSeq(q, 1, IF Len(q) < n THEN Len(q) ELSE n)

\* one entry of desc_parts; the description is the parts joined by '\n'
Part(part, text, nc, nf, deps) ==
    [part |-> part, text |-> text, classes |-> nc, functions |-> nf,
     deps |-> deps]

generate_rule_based_description(file_name, extension, functions, classes, imports, purposes) ==
    LET language ==
            CASE extension = Chars(".py") -> "Python"
              [] extension = Chars(".js") -> "JavaScript"
              [] extension = Chars(".ts") -> "TypeScript"
              [] OTHER -> "Unknown"
        purpose ==
            IF purposes # <<>>
            THEN <<Part("Purpose",
                    CASE purposes[1] = "api" ->
                            "Handles API endpoints and web requests"
                      [] purposes[1] = "database" ->
                            "Manages database operations"
                      [] purposes[1] = "ui" ->
                            "Implements user interface components"
                      [] purposes[1] = "testing" ->
                            "Contains test cases and utilities"
                      [] purposes[1] = "config" ->
                            "Manages application configuration"
                      [] purposes[1] = "utils" ->
                            "Provides utility functions"
                      [] OTHER -> "General purpose code",
                    0, 0, <<>>)>>
            ELSE <<>>
        architecture ==
            IF classes # <<>> /\ functions # <<>>
            THEN <<Part("Architecture", "Object-oriented",
                        Len(classes), Len(functions), <<>>)>>
            ELSE IF classes # <<>>
            THEN <<Part("Architecture", "Class-based", Len(classes), 0, <<>>)>>
            ELSE IF functions # <<>>
            THEN <<Part("Architecture", "Functional", 0, Len(functions), <<>>)>>
            ELSE <<>>
        critical_deps == CriticalDeps(imports)
        dependencies ==
            IF imports # <<>> /\ critical_deps # <<>>
            THEN <<Part("Dependencies", "", 0, 0, Take(critical_deps, 5))>>
            ELSE <<>>
        desc_parts == purpose \o architecture \o dependencies
    IN  IF desc_parts # <<>> THEN desc_parts
        \* line 349: "General {language} module"; the language label travels in
        \* the deps field of the part
        ELSE <<Part("Purpose", "General module", 0, 0, <<language>>)>>

\* a description as stored under 'ai_description'
Description(by, text, parts) == [by |-> by, text |-> text, parts |-> parts]
NoDescription == Description("absent", "", <<>>)

\* Path.stem: the name without its suffix
Stem(path) ==
    LET c == Chars(Name(path))
    IN  SubSeq(c, 1, Len(c) - Len(Suffix(path)))

RuleBased(file_path, analysis) ==
    Description("rules", "",
        generate_rule_based_description(Stem(file_path), Suffix(file_path),
            analysis.functions, analysis.classes, analysis.imports, <<>>))

\* mutant: the except clause lets the backend's exception out
analyze_code_purpose_raising(file_path, code_content, analysis, model, outcome) ==
    IF model /\ outcome.kind = "text"
    THEN [raised |-> FALSE,
          value |-> Description("gemini", Str(Strip(Chars(outcome.text))), <<>>)]
    ELSE IF model
    THEN [raised |-> TRUE, value |-> NoDescription]
    ELSE [raised |-> FALSE, value |-> RuleBased(file_path, analysis)]

\* model: gemini_model is set; outcome: what generate_content does when
\* it is called (returns a response with this text, or raises)
analyze_code_purpose(file_path, code_content, analysis, model, outcome) ==
    IF model /\ outcome.kind = "text"
    THEN [raised |-> FALSE,
          value |-> Description("gemini", Str(Strip(Chars(outcome.text))), <<>>)]
    ELSE [raised |-> FALSE, value |-> RuleBased(file_path, analysis)]

-----------------------------------------------------------------------------
(* CodeAnalyzer.analyze_file and the inputs of a run *)

\* where the project can live: parts of Path(project_path).resolve()
RootPaths ==
    {<<"/", "home", "proj">>, <<"/", "tmp", "proj">>, <<"/", "srv", "build">>}

\* the files a project tree is drawn from, relative to the root
FileUniverse ==
    {<<"a.py">>, <<"setup.py">>, <<"requirements.txt">>, <<"lib.c">>,
     <<"node_modules", "ignored.js">>, <<"a", "x.py">>, <<"a-b", "x.py">>,
     <<"src", "A.PY">>, <<"src", "app.js">>, <<"src", "build", "gen.py">>}

\* what a file of a project can contain
FileContents ==
    {"", "def foo():\nclass Bar:", "from os import os\nimport flask",
     "function go() {}\nconst go = () => go"}

\* what the Gemini call for one file can do: raise, return a response, or
\* never return (generate_content is called with no timeout, line 302)
FileOutcomes ==
    {[kind |-> "raise", text |-> ""], [kind |-> "text", text |-> " Parses input. "],
     [kind |-> "hang", text |-> ""]}

Analysis(error, functions, classes, imports, lines, language) ==
    [error |-> error, functions |-> functions, classes |-> classes,
     imports |-> imports, lines |-> lines, language |-> language,
     ai_description |-> NoDescription]

\* mutant: open() outside any try, the read error leaves analyze_file
analyze_file_unguarded(file_path, readable, content) ==
    IF ~readable THEN {[raised |-> TRUE, dict |-> Analysis(TRUE, <<>>, <<>>, <<>>, 0, "")]}
    ELSE {[raised |-> FALSE,
           dict |-> Analysis(FALSE, f, c, i, LineCount(content),
                             detect_language(Suffix(file_path)))] :
            f \in extract_functions(content, Suffix(file_path)),
            c \in extract_classes(content, Suffix(file_path)),
            i \in extract_imports(content, Suffix(file_path))}

\* the dicts a call can return: {'error': ...} when the read raises,
\* the analysis otherwise (its lists in any order a set can give)
analyze_file(file_path, readable, content) ==
    IF ~readable THEN {[raised |-> FALSE, dict |-> Analysis(TRUE, <<>>, <<>>, <<>>, 0, "")]}
    ELSE {[raised |-> FALSE,
           dict |-> Analysis(FALSE, f, c, i, LineCount(content),
                             detect_language(Suffix(file_path)))] :
            f \in extract_functions(content, Suffix(file_path)),
            c \in extract_classes(content, Suffix(file_path)),
            i \in extract_imports(content, Suffix(file_path))}

-----------------------------------------------------------------------------
(* EnhancedDocumentationGenerator._analyze_project *)

\* file_path.relative_to(project_path)
RelativeTo(file_path, root) == SubSeq(file_path, Len(root) + 1, Len(file_path))

\* suffixes for which _analyze_project asks for a description
DescribedSuffixes ==
    {Chars(".py"), Chars(".js"), Chars(".ts"), Chars(".jsx"), Chars(".tsx"),
     Chars(".java"), Chars(".cpp")}

\* _read_file: the content, or "" when the read raises
read_file(readable, content) == IF readable THEN content ELSE <<>>

\* the body of the loop for one file whose analysis has no 'error'
DescribeFile(file_path, analysis, rereadable, content, outcome) ==
    IF Suffix(file_path) \in DescribedSuffixes
    THEN LET r == analyze_code_purpose(file_path,
                      read_file(rereadable, content), analysis,
                      gemini_model, outcome)
         IN  [analysis EXCEPT !.ai_description =
                 IF r.raised
                 THEN Description("unavailable", "Code analysis not available", <<>>)
                 ELSE r.value]
    ELSE analysis

\* what the backend did for a file: "none" when it was not called
CallKind(file_path, outcome) ==
    IF Suffix(file_path) \in DescribedSuffixes /\ gemini_model
    THEN outcome.kind ELSE "none"

EmptyAnalysis == [files |-> <<>>, total_files |-> 0, project_name |-> ""]

\* lines 195-202: scan, then the empty aggregate
StartAnalysis ==
    /\ pc = "start"
    /\ LET scan == get_code_files(project_path, fs)
       IN  /\ code_files' = scan.files
           /\ visited' = scan.visited
           /\ project_analysis' =
                  [files |-> <<>>, total_files |-> Len(scan.files),
                   project_name |-> Name(project_path)]
           /\ pc' = IF scan.files = <<>> THEN "analyzed" ELSE "analyze"
    /\ idx' = 1
    /\ UNCHANGED <<project_path, fs, gemini_model, log, overview_response,
                   ai_overview,
                   readme, written, raised,
                   unitVars, cliVars>>

\* what one iteration saw: text is "" when the read failed
LogEntry(file_path, readable, text, call) ==
    [path |-> file_path, readable |-> readable,
     text |-> IF readable THEN text ELSE "",
     call |-> IF readable THEN call ELSE "none"]

\* lines 204-224: one iteration of the loop
AnalyzeNextFile ==
    /\ pc = "analyze"
    /\ \E readable \in BOOLEAN, rereadable \in BOOLEAN,
          text \in FileContents, outcome \in FileOutcomes :
         LET file_path == code_files[idx]
             content == Chars(text)
         IN  \E a \in analyze_file(file_path, readable, content) :
               IF a.raised
               THEN /\ pc' = "raised"
                    /\ raised' = "IOError"
                    /\ UNCHANGED <<project_analysis, log, idx>>
               ELSE IF ~a.dict.error /\ CallKind(file_path, outcome) = "hang"
               THEN \* line 302 never returns: the run stays in the call
                    /\ pc' = "blocked"
                    /\ UNCHANGED <<project_analysis, log, idx, raised>>
               ELSE /\ IF a.dict.error
                       THEN UNCHANGED project_analysis
                       ELSE project_analysis' =
                              [project_analysis EXCEPT !.files = Append(@,
                                 [path |-> PathString(RelativeTo(file_path, project_path)),
                                  analysis |-> DescribeFile(file_path, a.dict,
                                                 rereadable, content, outcome)])]
                    /\ log' = Append(log, LogEntry(file_path, readable, text,
                                                   CallKind(file_path, outcome)))
                    /\ idx' = idx + 1
                    /\ pc' = IF idx = Len(code_files) THEN "analyzed" ELSE "analyze"
                    /\ UNCHANGED raised
    /\ UNCHANGED <<project_path, fs, gemini_model, code_files, visited,
                   overview_response, ai_overview, readme, written,
                   unitVars, cliVars>>

-----------------------------------------------------------------------------
(* AIDocumentationEngine.generate_project_overview *)

\* values of an overview dict, as json gives them; text is kept as the
\* sequence of its fragments, a number as its digits
JStr(frags)  == [t |-> "str", v |-> frags]
JList(items) == [t |-> "list", v |-> items]
JNum(n)      == [t |-> "num", v |-> <<ToString(n)>>]
JNull        == [t |-> "null", v |-> <<>>]
JMissing     == [t |-> "missing", v |-> <<>>]     \* the key is not in the dict

OverviewKeys ==
    {"project_description", "project_type", "main_features", "tech_stack",
     "target_audience", "installation_steps", "usage_instructions",
     "project_structure_explanation"}

EmptyDict == [k \in OverviewKeys |-> JMissing]

\* what json.loads can return: a dict, or a value of another type
Overview(type, d) == [type |-> type, d |-> d]
NoOverview == Overview("none", EmptyDict)

\* needle in hay, both as code points
Contains(hay, needle) ==
    \E i \in 1..(Len(hay) - Len(needle) + 1) :
        SubSeq(hay, i, i + Len(needle) - 1) = needle

RECURSIVE LanguagesOf(_)
LanguagesOf(files) ==
    IF files = <<>> THEN <<>>
    ELSE (IF Head(files).analysis.language # ""
          THEN <<Head(files).analysis.language>> ELSE <<>>)
             \o LanguagesOf(Tail(files))

AllImports(files) ==
    UNION {Range(files[i].analysis.imports) : i \in 1..Len(files)}

\* _parse_text_response: fixed texts, tech_stack = list(set(languages))
parse_text_response(pa) ==
    {Overview("dict",
        [project_description |-> JStr(<<"An innovative software project with modern architecture and clean code design.">>),
         project_type |-> JStr(<<"Software Application">>),
         main_features |-> JList(<<"Core functionality", "User-friendly interface", "Robust architecture">>),
         tech_stack |-> JList(langs),
         target_audience |-> JStr(<<"Developers and end users">>),
         installation_steps |-> JList(<<"Clone the repository", "Install dependencies", "Run the application">>),
         usage_instructions |-> JList(<<"Follow the installation steps", "Run the main application", "Check documentation for details">>),
         project_structure_explanation |-> JStr(<<"Well-organized codebase with clear separation of concerns">>)]) :
     langs \in ListSet(LanguagesOf(pa.files))}

\* _generate_installation_steps: decided by the manifest found at the root
generate_installation_steps(tree) ==
    <<"Clone the repository">> \o
    (IF <<"requirements.txt">> \in tree
     THEN <<"Create a virtual environment", "Activate virtual environment",
            "Install dependencies: pip install -r requirements.txt">>
     ELSE IF <<"package.json">> \in tree
     THEN <<"Install Node.js dependencies: npm install">>
     ELSE IF <<"pyproject.toml">> \in tree
     THEN <<"Install the package: pip install .">>
     ELSE <<"Install required dependencies (check project files for specifics)">>)

generate_usage_instructions(pa) ==
    LET files == pa.files
        HasFile(name) == \E i \in 1..Len(files) : Contains(files[i].path, Chars(name))
    IN  (IF HasFile("main.py") THEN <<"Run the main application: python main.py">>
         ELSE IF HasFile("app.py") THEN <<"Start the application: python app.py">>
         ELSE IF HasFile("cli.py")
         THEN <<"Use the command line interface: python cli.py --help">>
         ELSE <<>>) \o
        <<"Check the documentation for detailed usage examples",
          "Explore the available features and options",
          "Report issues or contribute to the project">>

\* the project types _generate_fallback_overview can detect (lines 194-213)
ProjectTypes ==
    {"Software Application", "Web Application", "Command Line Tool",
     "Data Science Project", "Desktop/GUI Application"}

\* project_type.lower() of line 224, for each of them
ProjectTypeLower == [t \in ProjectTypes |-> Str(LowerCase(Chars(t)))]

\* _generate_fallback_overview, one dict for each order list(languages) can have
generate_fallback_overview(pa, tree) ==
    LET files == pa.files
        all_imports == AllImports(files)
        project_files == {LowerCase(files[i].path) : i \in 1..Len(files)}
        web == all_imports \cap {"flask", "django", "fastapi", "express"} # {}
        cli == \/ \E f \in project_files :
                      Contains(f, Chars("cli")) \/ Contains(f, Chars("command"))
               \/ "argparse" \in all_imports
        data == all_imports \cap {"pandas", "numpy", "scikit-learn", "matplotlib"} # {}
        gui == all_imports \cap {"tkinter", "pyqt", "streamlit"} # {}
        project_type ==
            IF web THEN "Web Application"
            ELSE IF cli THEN "Command Line Tool"
            ELSE IF data THEN "Data Science Project"
            ELSE IF gui THEN "Desktop/GUI Application"
            ELSE "Software Application"
        main_features ==
            (IF web THEN <<"Web interface", "API endpoints", "Server-side logic">>
             ELSE IF cli
             THEN <<"Command line interface", "Automated tasks", "Configurable options">>
             ELSE IF data THEN <<"Data analysis", "Machine learning", "Visualization">>
             ELSE IF gui
             THEN <<"Graphical interface", "Interactive features", "User-friendly design">>
             ELSE <<>>) \o
            (IF all_imports \cap {"matplotlib", "plotly"} # {}
             THEN <<"Data visualization">> ELSE <<>>) \o
            (IF all_imports \cap {"sqlite3", "sqlalchemy", "pymongo"} # {}
             THEN <<"Database integration">> ELSE <<>>) \o
            (IF "requests" \in all_imports THEN <<"API integration">> ELSE <<>>)
    IN  {Overview("dict",
            [project_description |->
                JStr(<<"A", ProjectTypeLower[project_type], "built with">>
                     \o Take(langs, 2)
                     \o <<"featuring modern architecture and clean code design.">>),
             project_type |-> JStr(<<project_type>>),
             main_features |->
                JList(IF main_features # <<>> THEN Take(main_features, 5)
                      ELSE <<"Core functionality", "Clean architecture", "Extensible design">>),
             tech_stack |-> JList(langs),
             target_audience |->
                JStr(<<"Developers and end users looking for reliable software solutions">>),
             installation_steps |-> JList(generate_installation_steps(tree)),
             usage_instructions |-> JList(generate_usage_instructions(pa)),
             project_structure_explanation |->
                JStr(<<"Well-organized codebase with",
                       ToString(pa.total_files), "files across",
                       ToString(Len(langs)), "programming languages">>)]) :
         langs \in ListSet(LanguagesOf(files))}

\* a response of generate_content: the call raises, or response.text is a
\* text that may carry its JSON in a ```json fence; wf: the JSON text is
\* well-formed, value: what it denotes
Response(kind, fenced, wf, value) ==
    [kind |-> kind, fenced |-> fenced, wf |-> wf, value |-> value]

GoodObject ==
    Overview("dict",
        [project_description |-> JStr(<<"Generates documentation for a code base.">>),
         project_type |-> JStr(<<"CLI Tool">>),
         main_features |-> JList(<<"Scans sources", "Writes a README">>),
         tech_stack |-> JList(<<"Python">>),
         target_audience |-> JStr(<<"Developers">>),
         installation_steps |-> JList(<<"pip install .">>),
         usage_instructions |-> JList(<<"code-doc generate docs .">>),
         project_structure_explanation |-> JStr(<<"One package and its tests">>)])

\* line 52: no backend, generate_content is not called
NoResponse == Response("none", FALSE, FALSE, NoOverview)

\* line 80 never returns
HangResponse == Response("hang", FALSE, FALSE, NoOverview)

OverviewResponses ==
    {Response("raise", FALSE, FALSE, NoOverview),
     HangResponse,
     \* prose, no JSON in it
     Response("text", FALSE, FALSE, NoOverview),
     \* the object the prompt asks for, fenced or bare
     Response("text", TRUE, TRUE, GoodObject),
     Response("text", FALSE, TRUE, GoodObject),
     \* {}: an object with none of the keys
     Response("text", FALSE, TRUE, Overview("dict", EmptyDict)),
     \* {"installation_steps": null}
     Response("text", FALSE, TRUE,
         Overview("dict", [EmptyDict EXCEPT !["installation_steps"] = JNull])),
     \* [1, 2]: well-formed JSON, not an object
     Response("text", TRUE, TRUE, Overview("list", EmptyDict)),
     \* 3
     Response("text", FALSE, TRUE, Overview("num", EmptyDict))}

\* json.loads(json_text): the value, or JSONDecodeError
json_loads(response) ==
    IF response.wf THEN [ok |-> TRUE, value |-> response.value]
    ELSE [ok |-> FALSE, value |-> NoOverview]

\* the overviews a call can return
generate_project_overview(pa, tree, model, response) ==
    IF ~model THEN generate_fallback_overview(pa, tree)
    ELSE IF response.kind = "raise"
    THEN generate_fallback_overview(pa, tree)
    ELSE IF json_loads(response).ok THEN {json_loads(response).value}
    ELSE parse_text_response(pa)

-----------------------------------------------------------------------------
(* EnhancedDocumentationGenerator: the report builder *)

\* sorted(...) of str values
StrLeq(a, b) == a = b \/ SeqLess(Chars(a), Chars(b))
SortedStrings(q) == SortSeq(q, LAMBDA a, b : a # b /\ StrLeq(a, b))

RECURSIVE SetToSortedSeq(_)
SetToSortedSeq(S) ==
    IF S = {} THEN <<>>
    ELSE LET m == CHOOSE x \in S : \A y \in S : StrLeq(x, y)
         IN  <<m>> \o SetToSortedSeq(S \ {m})

PriorityLibraries ==
    {"flask", "django", "fastapi", "streamlit", "pandas", "numpy",
     "matplotlib", "scikit-learn", "tensorflow", "pytorch", "requests"}

\* mutant: no priority, every import in sorted order
extract_key_dependencies_sorted(pa) ==
    LET all_imports ==
            {imp \in AllImports(pa.files) :
                /\ ~(Len(Chars(imp)) > 0 /\ Chars(imp)[1] = 46)
                /\ imp \notin {"os", "sys", "re", "json", "typing"}}
    IN  {Take(SetToSortedSeq(all_imports), 15)}

\* _extract_key_dependencies: list(priority_imports) in any order a set can
\* give, then the other imports sorted, cut to 15
extract_key_dependencies(pa) ==
    LET all_imports ==
            {imp \in AllImports(pa.files) :
                /\ ~(Len(Chars(imp)) > 0 /\ Chars(imp)[1] = 46)
                /\ imp \notin {"os", "sys", "re", "json", "typing"}}
        priority_imports == all_imports \cap PriorityLibraries
    IN  {Take(first \o SetToSortedSeq(all_imports \ priority_imports), 15) :
            first \in ListSet(SetToSortedSeq(priority_imports))}

\* Path(str).parts of a relative path: the pieces between '/' (47)
SplitPath(codes) ==
    LET n == Len(codes)
        starts == {i \in 1..n : codes[i] # 47 /\ (i = 1 \/ codes[i - 1] = 47)}
        Start(k) == CHOOSE i \in starts : Cardinality({j \in starts : j < i}) = k - 1
        End(i) == Min({j \in i..n : j = n \/ codes[j + 1] = 47})
    IN  [k \in 1..Cardinality(starts) |->
            Str(SubSeq(codes, Start(k), End(Start(k))))]

\* one line of a generated text: its kind and the pieces put into it; a
\* heading (h1, h2, h3) is its '#' marks, a space and its pieces joined by
\* spaces, an emoji being given by its code point
Line(k, s) == [k |-> k, s |-> s]
Blank == Line("blank", <<>>)

\* one output line per element of a list value (for ... in overview[key]);
\* the responses considered hold lists, never a bare string, under list keys
RECURSIVE Lines(_, _)
Lines(k, items) ==
    IF items = <<>> THEN <<>>
    ELSE <<Line(k, <<Head(items)>>)>> \o Lines(k, Tail(items))

\* the dict of lines 140-151: top-level directory (or 'root') -> file names
RECURSIVE GroupByDir(_, _)
GroupByDir(files, dirs) ==
    IF files = <<>> THEN dirs
    ELSE LET path == SplitPath(Head(files).path)
             key == IF Len(path) > 1 THEN path[1] ELSE "root"
             old == IF key \in DOMAIN dirs THEN dirs[key] ELSE <<>>
         IN  GroupByDir(Tail(files),
                 [d \in DOMAIN dirs \cup {key} |->
                     IF d = key THEN Append(old, Name(path)) ELSE dirs[d]])

RECURSIVE DirLines(_, _)
DirLines(names, dirs) ==
    IF names = <<>> THEN <<>>
    ELSE LET files == dirs[Head(names)]
         IN  <<Line("dir", <<Head(names)>>)>>
                 \o Lines("dirfile", Take(SortedStrings(files), 3))
                 \o (IF Len(files) > 3
                     THEN <<Line("more", <<ToString(Len(files) - 3)>>)>>
                     ELSE <<>>)
                 \o DirLines(Tail(names), dirs)

generate_simple_file_tree(pa, project_name) ==
    IF pa.files = <<>> THEN <<Line("tree", <<project_name>>)>>
    ELSE LET dirs == GroupByDir(pa.files, <<>>)
             root == IF "root" \in DOMAIN dirs
                     THEN Lines("rootfile", Take(SortedStrings(dirs["root"]), 5))
                     ELSE <<>>
             rest == SetToSortedSeq(DOMAIN dirs \ {"root"})
         IN  <<Line("tree", <<project_name>>)>> \o root
                 \o DirLines(Take(rest, 5), dirs)

\* values that pass 'if value:'
Truthy(val) ==
    \/ val.t \in {"str", "list"} /\ val.v # <<>>
    \/ val.t = "num"

\* dict.get(key, default)
Get(d, key, default) == IF d[key].t = "missing" THEN default ELSE d[key]

\* values a for loop or enumerate() accepts
Iterable(val) == val.t \in {"str", "list"}

\* _build_comprehensive_readme; now: the reading of datetime.now().
\* Result: the exception that leaves the call, or the lines of the text.
build_comprehensive_readme(project_name, pa, overview, deps, now) ==
    LET d == overview.d
        description == Get(d, "project_description",
                           JStr(<<"A well-crafted software project.">>))
        files == pa.files
        languages == Range(LanguagesOf(files))
        RECURSIVE Sum(_)
        Sum(i) == IF i > Len(files) THEN 0 ELSE files[i].analysis.lines + Sum(i + 1)
        features == Get(d, "main_features", JList(<<>>))
        tech_stack == Get(d, "tech_stack", JList(<<>>))
        installation_steps == Get(d, "installation_steps", JList(<<>>))
        usage_instructions == Get(d, "usage_instructions", JList(<<>>))
        structure == Get(d, "project_structure_explanation", JStr(<<>>))
        audience == Get(d, "target_audience", JStr(<<>>))
        text ==
            <<Line("h1", <<project_name>>), Blank,
              Line("type", Get(d, "project_type", JStr(<<"Software Project">>)).v),
              Blank, Line("description", description.v), Blank,
              Line("h2", <<"U+1F4CA", "Project Stats">>), Blank,
              Line("files", <<ToString(pa.total_files)>>),
              Line("languages", SetToSortedSeq(languages)),
              Line("lines", <<ToString(Sum(1))>>), Blank>>
            \o (IF Truthy(features)
                THEN <<Line("h2", <<"U+2728", "Features">>), Blank>>
                         \o Lines("feature", features.v) \o <<Blank>>
                ELSE <<>>)
            \o (IF Truthy(tech_stack)
                THEN <<Line("h2", <<"U+1F6E0", "Tech Stack">>), Blank>>
                         \o Lines("tech", tech_stack.v) \o <<Blank>>
                ELSE <<>>)
            \o <<Line("h2", <<"U+1F680", "Installation">>), Blank>>
            \o Lines("step", installation_steps.v) \o <<Blank>>
            \o <<Line("h2", <<"U+1F4BB", "Usage">>), Blank>>
            \o Lines("usage", usage_instructions.v) \o <<Blank>>
            \o (IF Truthy(structure)
                THEN <<Line("h2", <<"U+1F4C1", "Project Structure">>), Blank,
                       Line("structure", structure.v), Blank, Line("fence", <<>>)>>
                         \o generate_simple_file_tree(pa, project_name)
                         \o <<Line("fence", <<>>), Blank>>
                ELSE <<>>)
            \o (IF deps # <<>>
                THEN <<Line("h2", <<"U+1F4E6", "Key Dependencies">>), Blank>>
                         \o Lines("dependency", Take(deps, 10)) \o <<Blank>>
                ELSE <<>>)
            \o <<Line("h2", <<"U+1F91D", "Contributing">>), Blank,
                 Line("contributing", <<>>), Blank>>
            \o (IF Truthy(audience)
                THEN <<Line("h2", <<"U+1F465", "Target Audience">>), Blank,
                       Line("audience", audience.v), Blank>>
                ELSE <<>>)
            \o <<Line("rule", <<>>), Line("generated", <<now>>)>>
    IN  IF overview.type # "dict"
        THEN \* ai_overview.get: no such attribute on a list, a number, ...
             [raised |-> "AttributeError", value |-> <<>>]
        ELSE IF \/ Truthy(features) /\ ~Iterable(features)
                \/ Truthy(tech_stack) /\ ~Iterable(tech_stack)
                \/ ~Iterable(installation_steps)
                \/ ~Iterable(usage_instructions)
                \* '\n'.join(readme_parts) takes str items only
                \/ description.t # "str"
                \/ Truthy(structure) /\ structure.t # "str"
                \/ Truthy(audience) /\ audience.t # "str"
        THEN [raised |-> "TypeError", value |-> <<>>]
        ELSE [raised |-> "none", value |-> text]

-----------------------------------------------------------------------------
(* EnhancedDocumentationGenerator.generate_readme, after _analyze_project *)

\* readings of datetime.now() for the footer
Clock == {"2024-05-01 10:00:00", "2024-05-01 10:00:01"}

\* line 20: the overview, from the backend or from the rules
GenerateOverview ==
    /\ pc = "analyzed"
    /\ \E response \in (IF gemini_model THEN OverviewResponses ELSE {NoResponse}) :
         /\ overview_response' = response
         /\ IF response = HangResponse
            THEN \* the run stays in generate_content
                 /\ pc' = "blocked"
                 /\ UNCHANGED ai_overview
            ELSE /\ pc' = "overview"
                 /\ ai_overview' \in generate_project_overview(
                        project_analysis, fs, gemini_model, response)
    /\ UNCHANGED <<project_path, fs, gemini_model, code_files, visited,
                   project_analysis, idx, log, readme, written, raised,
                   unitVars, cliVars>>

\* lines 22-28: build the text, write README.md, return the text
BuildReadme ==
    /\ pc = "overview"
    /\ \E now \in Clock, deps \in extract_key_dependencies(project_analysis) :
         LET r == build_comprehensive_readme(Name(project_path),
                      project_analysis, ai_overview, deps, now)
         IN  IF r.raised # "none"
             THEN /\ pc' = "raised"
                  /\ raised' = r.raised
                  /\ UNCHANGED <<readme, written>>
             ELSE /\ pc' = "done"
                  /\ readme' = r.value
                  /\ written' = TRUE
                  /\ UNCHANGED raised
    /\ UNCHANGED <<project_path, fs, gemini_model, code_files, visited,
                   project_analysis, idx, log, overview_response,
                   ai_overview, unitVars, cliVars>>

-----------------------------------------------------------------------------
(* doc.py, AIDocumentationEngine: the description by rules *)

\* the keywords of lines 86-96, 167 and 177
Keywords ==
    {"flask", "fastapi", "express", "router", "endpoint", "request", "response",
     "sqlite", "mysql", "postgres", "mongodb", "sqlalchemy", "prisma", "mongoose",
     "react", "vue", "angular", "tkinter", "pyqt", "gtk", "javafx",
     "test", "pytest", "unittest", "mocha", "jest", "spec", "config",
     "settings", "environment", "env", "util", "helper", "common", "shared",
     "model", "schema", "entity", "dto", "service", "manager", "handler",
     "processor", "controller", "view", "main", "init", "create", "process",
     "handle", "execute", "os", "sys", "re", "json", "datetime"}

\* a keyword as code points
KeywordCodes ==
    [k \in Keywords |->
        CASE k = "flask" -> <<102, 108, 97, 115, 107>>
          [] k = "fastapi" -> <<102, 97, 115, 116, 97, 112, 105>>
          [] k = "express" -> <<101, 120, 112, 114, 101, 115, 115>>
          [] k = "router" -> <<114, 111, 117, 116, 101, 114>>
          [] k = "endpoint" -> <<101, 110, 100, 112, 111, 105, 110, 116>>
          [] k = "request" -> <<114, 101, 113, 117, 101, 115, 116>>
          [] k = "response" -> <<114, 101, 115, 112, 111, 110, 115, 101>>
          [] k = "sqlite" -> <<115, 113, 108, 105, 116, 101>>
          [] k = "mysql" -> <<109, 121, 115, 113, 108>>
          [] k = "postgres" -> <<112, 111, 115, 116, 103, 114, 101, 115>>
          [] k = "mongodb" -> <<109, 111, 110, 103, 111, 100, 98>>
          [] k = "sqlalchemy" -> <<115, 113, 108, 97, 108, 99, 104, 101, 109, 121>>
          [] k = "prisma" -> <<112, 114, 105, 115, 109, 97>>
          [] k = "mongoose" -> <<109, 111, 110, 103, 111, 111, 115, 101>>
          [] k = "react" -> <<114, 101, 97, 99, 116>>
          [] k = "vue" -> <<118, 117, 101>>
          [] k = "angular" -> <<97, 110, 103, 117, 108, 97, 114>>
          [] k = "tkinter" -> <<116, 107, 105, 110, 116, 101, 114>>
          [] k = "pyqt" -> <<112, 121, 113, 116>>
          [] k = "gtk" -> <<103, 116, 107>>
          [] k = "javafx" -> <<106, 97, 118, 97, 102, 120>>
          [] k = "test" -> <<116, 101, 115, 116>>
          [] k = "pytest" -> <<112, 121, 116, 101, 115, 116>>
          [] k = "unittest" -> <<117, 110, 105, 116, 116, 101, 115, 116>>
          [] k = "mocha" -> <<109, 111, 99, 104, 97>>
          [] k = "jest" -> <<106, 101, 115, 116>>
          [] k = "spec" -> <<115, 112, 101, 99>>
          [] k = "config" -> <<99, 111, 110, 102, 105, 103>>
          [] k = "settings" -> <<115, 101, 116, 116, 105, 110, 103, 115>>
          [] k = "environment" -> <<101, 110, 118, 105, 114, 111, 110, 109, 101, 110, 116>>
          [] k = "env" -> <<101, 110, 118>>
          [] k = "util" -> <<117, 116, 105, 108>>
          [] k = "helper" -> <<104, 101, 108, 112, 101, 114>>
          [] k = "common" -> <<99, 111, 109, 109, 111, 110>>
          [] k = "shared" -> <<115, 104, 97, 114, 101, 100>>
          [] k = "model" -> <<109, 111, 100, 101, 108>>
          [] k = "schema" -> <<115, 99, 104, 101, 109, 97>>
          [] k = "entity" -> <<101, 110, 116, 105, 116, 121>>
          [] k = "dto" -> <<100, 116, 111>>
          [] k = "service" -> <<115, 101, 114, 118, 105, 99, 101>>
          [] k = "manager" -> <<109, 97, 110, 97, 103, 101, 114>>
          [] k = "handler" -> <<104, 97, 110, 100, 108, 101, 114>>
          [] k = "processor" -> <<112, 114, 111, 99, 101, 115, 115, 111, 114>>
          [] k = "controller" -> <<99, 111, 110, 116, 114, 111, 108, 108, 101, 114>>
          [] k = "view" -> <<118, 105, 101, 119>>
          [] k = "main" -> <<109, 97, 105, 110>>
          [] k = "init" -> <<105, 110, 105, 116>>
          [] k = "create" -> <<99, 114, 101, 97, 116, 101>>
          [] k = "process" -> <<112, 114, 111, 99, 101, 115, 115>>
          [] k = "handle" -> <<104, 97, 110, 100, 108, 101>>
          [] k = "execute" -> <<101, 120, 101, 99, 117, 116, 101>>
          [] k = "os" -> <<111, 115>>
          [] k = "sys" -> <<115, 121, 115>>
          [] k = "re" -> <<114, 101>>
          [] k = "json" -> <<106, 115, 111, 110>>
          [] k = "datetime" -> <<100, 97, 116, 101, 116, 105, 109, 101>>]

\* purpose_indicators, lines 86-96, in the order of the dict
purpose_indicators ==
    <<[purpose |-> "api",
       keywords |-> <<"flask", "fastapi", "express", "router", "endpoint", "request", "response">>],
      [purpose |-> "database",
       keywords |-> <<"sqlite", "mysql", "postgres", "mongodb", "sqlalchemy", "prisma", "mongoose">>],
      [purpose |-> "ui",
       keywords |-> <<"react", "vue", "angular", "tkinter", "pyqt", "gtk", "javafx">>],
      [purpose |-> "testing",
       keywords |-> <<"test", "pytest", "unittest", "mocha", "jest", "spec">>],
      [purpose |-> "config",
       keywords |-> <<"config", "settings", "environment", "env">>],
      [purpose |-> "utils",
       keywords |-> <<"util", "helper", "common", "shared">>],
      [purpose |-> "model",
       keywords |-> <<"model", "schema", "entity", "dto">>],
      [purpose |-> "service",
       keywords |-> <<"service", "manager", "handler", "processor">>],
      [purpose |-> "controller",
       keywords |-> <<"controller", "view", "endpoint">>]>>

\* lines 98-106: the purposes whose keywords occur in the lower-cased
\* content, in the lower-cased stem or in a lower-cased import
detected_purposes(code_content, file_name, imports) ==
    LET code_lower == LowerCase(code_content)
        file_lower == LowerCase(file_name)
        Matches(entry) ==
            \E i \in 1..Len(entry.keywords) :
                LET keyword == KeywordCodes[entry.keywords[i]]
                IN  \/ Contains(code_lower, keyword)
                    \/ Contains(file_lower, keyword)
                    \/ \E j \in 1..Len(imports) :
                          Contains(LowerCase(Chars(imports[j])), keyword)
        found == SelectSeq(purpose_indicators, Matches)
    IN  [i \in 1..Len(found) |-> found[i].purpose]

\* line 165: the functions whose lower-cased name holds one of the words
ImportantFunctions(functions) ==
    LET Important(f) ==
            \E w \in {"main", "init", "create", "process", "handle", "execute"} :
                Contains(LowerCase(Chars(f)), KeywordCodes[w])
    IN  SelectSeq(functions, Important)

\* lines 176-177: the imports that are not relative and hold no standard name
DocCriticalDeps(imports) ==
    LET Critical(imp) ==
            /\ ~(Len(Chars(imp)) > 0 /\ Chars(imp)[1] = 46)
            /\ ~\E std \in {"os", "sys", "re", "json", "datetime"} :
                  Contains(Chars(imp), KeywordCodes[std])
    IN  SelectSeq(imports, Critical)

\* _generate_description, lines 116-190: desc_parts
doc_generate_description(file_name, extension, functions, classes, imports, purposes, code_content) ==
    LET purpose ==
            IF purposes # <<>>
            THEN <<Part("Primary Function",
                    CASE purposes[1] = "api" ->
                            "Handles API endpoints and web requests"
                      [] purposes[1] = "database" ->
                            "Manages database operations and data persistence"
                      [] purposes[1] = "ui" ->
                            "Implements user interface components and interactions"
                      [] purposes[1] = "testing" ->
                            "Contains test cases and testing utilities"
                      [] purposes[1] = "config" ->
                            "Manages application configuration and settings"
                      [] purposes[1] = "utils" ->
                            "Provides utility functions and helper methods"
                      [] purposes[1] = "model" ->
                            "Defines data models and schemas"
                      [] purposes[1] = "service" ->
                            "Implements business logic and services"
                      [] purposes[1] = "controller" ->
                            "Handles request processing and routing"
                      [] OTHER -> "General purpose code",
                    0, 0, <<>>)>>
            ELSE <<>>
        architecture ==
            IF classes # <<>> /\ functions # <<>>
            THEN <<Part("Architecture", "Object-oriented design",
                        Len(classes), Len(functions), <<>>)>>
            ELSE IF classes # <<>>
            THEN <<Part("Architecture", "Class-based structure", Len(classes), 0, <<>>)>>
            ELSE IF functions # <<>>
            THEN <<Part("Architecture", "Functional programming approach",
                        0, Len(functions), <<>>)>>
            ELSE <<>>
        key_components ==
            Take(classes, 3) \o Take(ImportantFunctions(functions), 3)
        components ==
            IF key_components # <<>>
            THEN <<Part("Key Components", "", 0, 0, key_components)>>
            ELSE <<>>
        critical_deps == DocCriticalDeps(imports)
        dependencies ==
            IF imports # <<>> /\ critical_deps # <<>>
            THEN <<Part("External Dependencies", "", 0, 0, Take(critical_deps, 5))>>
            ELSE <<>>
        lines == LineCount(code_content)
        complexity ==
            <<Part("Complexity",
                   IF lines > 500
                   THEN "Large, complex module requiring careful maintenance"
                   ELSE IF lines > 200
                   THEN "Medium-sized module with moderate complexity"
                   ELSE "Compact, focused implementation",
                   0, 0, <<>>)>>
    IN  purpose \o architecture \o components \o dependencies \o complexity

\* doc.py, analyze_code_purpose, lines 75-114
doc_analyze_code_purpose(file_path, code_content, analysis) ==
    doc_generate_description(Stem(file_path), Suffix(file_path),
        analysis.functions, analysis.classes, analysis.imports,
        detected_purposes(code_content, Stem(file_path), analysis.imports),
        code_content)

-----------------------------------------------------------------------------
(* doc.py, EnhancedDocumentationGenerator.generate_intelligent_docs *)

\* the pieces of " *(+N more)*"
MoreSuffix(n) == <<"+", ToString(n), "more">>

\* lines 719-737: the technical details of one file
doc_technical_details(analysis) ==
    IF analysis.classes # <<>> \/ analysis.functions # <<>> \/ analysis.imports # <<>>
    THEN <<Line("details", <<>>)>>
           \o (IF analysis.classes # <<>>
               THEN <<Line("classes", analysis.classes)>> ELSE <<>>)
           \o (IF analysis.functions # <<>>
               THEN <<Line("functions",
                        Take(analysis.functions, 10)
                          \o (IF Len(analysis.functions) > 10
                              THEN MoreSuffix(Len(analysis.functions) - 10)
                              ELSE <<>>))>>
               ELSE <<>>)
           \o (IF analysis.imports # <<>>
               THEN <<Line("imports",
                        Take(analysis.imports, 5)
                          \o (IF Len(analysis.imports) > 5
                              THEN MoreSuffix(Len(analysis.imports) - 5)
                              ELSE <<>>))>>
               ELSE <<>>)
    ELSE <<>>

\* lines 707-739: the section of one file
doc_file_section(file_info) ==
    <<Line("h4", <<"U+1F4C4", file_info.path>>), Blank,
      Line("loc", <<ToString(file_info.analysis.lines)>>), Blank,
      Line("text", <<file_info.analysis.ai_description>>), Blank>>
      \o doc_technical_details(file_info.analysis)
      \o <<Blank, Line("rule", <<>>), Blank>>

\* lines 697-702: the languages in the order of their first file
RECURSIVE LanguagesInOrder(_, _)
LanguagesInOrder(files, seen) ==
    IF files = <<>> THEN seen
    ELSE LET lang == Head(files).analysis.language
         IN  LanguagesInOrder(Tail(files),
                 IF lang \in Range(seen) THEN seen ELSE Append(seen, lang))

RECURSIVE doc_sections_of(_)
doc_sections_of(files) ==
    IF files = <<>> THEN <<>>
    ELSE doc_file_section(Head(files)) \o doc_sections_of(Tail(files))

RECURSIVE doc_language_sections(_, _)
doc_language_sections(langs, files) ==
    IF langs = <<>> THEN <<>>
    ELSE LET OfLang(file_info) == file_info.analysis.language = Head(langs)
         IN  <<Line("h3", <<Head(langs), "Files">>), Blank>>
               \o doc_sections_of(SelectSeq(files, OfLang))
               \o doc_language_sections(Tail(langs), files)

\* lines 694-739: the detailed file analysis
doc_detailed_file_analysis(pa) ==
    <<Line("h2", <<"U+1F4C1", "Detailed File Analysis">>), Blank>>
      \o doc_language_sections(LanguagesInOrder(pa.files, <<>>), pa.files)

-----------------------------------------------------------------------------
(* Calls of the pure functions on their own *)

MaxParts == 3

UnitNames == {"src", "node_modules", "build", "main.py", "README.md", "test.js"}

UnitPaths == UNION {[1..n -> UnitNames] : n \in 1..MaxParts}

UnitContents ==
    {"", "def foo():\nclass Bar:", "def my_function():\n    pass",
     "class MyClass:\n    pass", "def f(x):\ndef f(y):\n",
     "from os import os\nimport flask",
     "function go() {}\nconst go = () => go",
     "import x from 'lib'\nclass K {", "y => require('lib')",
     "import flask\nimport numpy\nimport requests"}

UnitExtensions == {".py", ".PY", ".js", ".ts", ".jsx", ".tsx", ".c"}

\* counts: for a call on a ProjectAnalysis, <<classes, functions>> of each file
Call(fn, path, content, extension) ==
    [fn |-> fn, path |-> path, content |-> content, extension |-> extension,
     counts |-> <<>>, records |-> <<>>]

\* sizes of the class and function lists of the files of a ProjectAnalysis
MaxClasses == 4
MaxFunctions == 10

\* one file of any size, or two files of fixed sizes
UnitCounts ==
    {<<<<c, f>>>> : c \in 0..MaxClasses, f \in 0..MaxFunctions} \cup
    {<<<<c1, f1>>, <<c2, f2>>>> : c1 \in {0, 2}, f1 \in {0, 5},
                                   c2 \in {0, 2}, f2 \in {0, 5}}

\* the ProjectAnalysis with files of these sizes (only the lengths are read)
AnalysisOfCounts(counts) ==
    [files |-> [i \in 1..Len(counts) |->
                  [analysis |-> [classes |-> [k \in 1..counts[i][1] |-> "K"],
                                 functions |-> [k \in 1..counts[i][2] |-> "f"]]]]]

RECURSIVE SumLen(_, _)
SumLen(files, field) ==
    IF files = <<>> THEN 0
    ELSE Len(Head(files).analysis[field]) + SumLen(Tail(files), field)

\* mutant: the class threshold is 0.5 of the functions
analyze_architecture_half(pa) ==
    LET total_classes == SumLen(pa.files, "classes")
        total_functions == SumLen(pa.files, "functions")
    IN  IF 2 * total_classes > total_functions
        THEN "Object-Oriented with strong class hierarchy"
        ELSE IF total_functions > total_classes * 3
        THEN "Functional/Procedural programming style"
        ELSE "Mixed architectural patterns"

\* mutant: functional only when the functions exceed 4 times the classes
analyze_architecture_four(pa) ==
    LET total_classes == SumLen(pa.files, "classes")
        total_functions == SumLen(pa.files, "functions")
    IN  IF 10 * total_classes > 3 * total_functions
        THEN "Object-Oriented with strong class hierarchy"
        ELSE IF total_functions > total_classes * 4
        THEN "Functional/Procedural programming style"
        ELSE "Mixed architectural patterns"

\* _analyze_architecture; classes > functions * 0.3 in floating point agrees
\* with 10 * classes > 3 * functions on the integers in reach
analyze_architecture(pa) ==
    LET total_classes == SumLen(pa.files, "classes")
        total_functions == SumLen(pa.files, "functions")
    IN  IF 10 * total_classes > 3 * total_functions
        THEN "Object-Oriented with strong class hierarchy"
        ELSE IF total_functions > total_classes * 3
        THEN "Functional/Procedural programming style"
        ELSE "Mixed architectural patterns"

NoCall == Call("none", <<>>, "", "")

Return(done, bool, list) == [done |-> done, bool |-> bool, list |-> list]

NotReturned == Return(FALSE, FALSE, <<>>)

CallShouldIgnorePath ==
    /\ ucall.fn = "should_ignore_path" /\ ~uret.done
    /\ uret' = Return(TRUE, should_ignore_path(ucall.path), <<>>)
    /\ UNCHANGED <<ucall, readme_again, pipeVars, cliVars>>

CallExtractFunctions ==
    /\ ucall.fn = "extract_functions" /\ ~uret.done
    /\ \E r \in extract_functions(Chars(ucall.content), Chars(ucall.extension)) :
         uret' = Return(TRUE, FALSE, r)
    /\ UNCHANGED <<ucall, readme_again, pipeVars, cliVars>>

CallExtractClasses ==
    /\ ucall.fn = "extract_classes" /\ ~uret.done
    /\ \E r \in extract_classes(Chars(ucall.content), Chars(ucall.extension)) :
         uret' = Return(TRUE, FALSE, r)
    /\ UNCHANGED <<ucall, readme_again, pipeVars, cliVars>>

CallExtractImports ==
    /\ ucall.fn = "extract_imports" /\ ~uret.done
    /\ \E r \in extract_imports(Chars(ucall.content), Chars(ucall.extension)) :
         uret' = Return(TRUE, FALSE, r)
    /\ UNCHANGED <<ucall, readme_again, pipeVars, cliVars>>

\* the descriptions a run can give for a file with this content when there
\* is no backend: analyze_file, then analyze_code_purpose's rule-based branch
DescribeWithoutBackend(content, extension) ==
    {generate_rule_based_description(<<>>, extension, f, c, i, <<>>) :
        f \in extract_functions(content, extension),
        c \in extract_classes(content, extension),
        i \in extract_imports(content, extension)}

\* two independent runs on the same content; each run has its own set
\* iteration order (str hashes are salted per process)
CallDescribeTwice ==
    /\ ucall.fn = "describe" /\ ~uret.done
    /\ \E d1, d2 \in DescribeWithoutBackend(Chars(ucall.content),
                                             Chars(ucall.extension)) :
         uret' = Return(TRUE, FALSE, <<d1, d2>>)
    /\ UNCHANGED <<ucall, readme_again, pipeVars, cliVars>>

\* str.title() on ASCII: a letter after a non-letter is upper-cased, every
\* other letter lower-cased
Title(codes) ==
    LET Letter(c) == c \in 65..90 \/ c \in 97..122
    IN  [i \in 1..Len(codes) |->
            IF ~Letter(codes[i]) THEN codes[i]
            ELSE IF i = 1 \/ ~Letter(codes[i - 1])
            THEN (IF codes[i] \in 97..122 THEN codes[i] - 32 ELSE codes[i])
            ELSE (IF codes[i] \in 65..90 THEN codes[i] + 32 ELSE codes[i])]

\* f"{n:,}": groups of three digits
Thousands(n) ==
    LET Pad(k) == IF k < 10 THEN <<"00", ToString(k)>>
                  ELSE IF k < 100 THEN <<"0", ToString(k)>> ELSE <<ToString(k)>>
    IN  IF n < 1000 THEN <<ToString(n)>>
        ELSE <<ToString(n \div 1000), ",">> \o Pad(n % 1000)

\* f"{x:.1f}" of (count / total) * 100, in tenths; no quotient in reach lies
\* halfway between two tenths
Percentage(count, total) ==
    LET tenths == (2000 * count + total) \div (2 * total)
    IN  <<ToString(tenths \div 10), ".", ToString(tenths % 10)>>

\* a file_info dict handed to a summary: has_purposes says whether the key
\* 'purposes' is there
FileInfo(path, language, lines, has_purposes, purposes, description) ==
    [path |-> path, has_purposes |-> has_purposes, purposes |-> purposes,
     analysis |-> [language |-> language, lines |-> lines,
                   classes |-> <<>>, functions |-> <<>>, imports |-> <<>>,
                   ai_description |-> description]]

\* the file_info of test_generate_project_summary
TestFileInfo ==
    FileInfo("main.py", "Python", 100, FALSE, <<>>, "**Detected Purposes**: utils")

SummaryFileInfos ==
    {TestFileInfo,
     FileInfo("main.py", "Python", 100, TRUE, <<"utils">>, ""),
     FileInfo("api.js", "JavaScript", 1200, TRUE, <<"api">>, ""),
     FileInfo("view.js", "JavaScript", 20, TRUE, <<"ui", "utils">>, "")}

\* files of a ProjectAnalysis handed to a summary
MaxSummaryFiles == 2

SummaryAnalyses ==
    UNION {[1..n -> SummaryFileInfos] : n \in 1..MaxSummaryFiles}

RECURSIVE AllPurposes(_)
AllPurposes(files) ==
    IF files = <<>> THEN <<>>
    ELSE (IF Head(files).has_purposes THEN Head(files).purposes ELSE <<>>)
             \o AllPurposes(Tail(files))

RECURSIVE TotalLines(_)
TotalLines(files) ==
    IF files = <<>> THEN 0 ELSE Head(files).analysis.lines + TotalLines(Tail(files))

\* doc.py, AIDocumentationEngine.generate_project_summary
doc_generate_project_summary(pa) ==
    LET files == pa.files
        languages == {files[i].analysis.language : i \in 1..Len(files)}
        all_purposes == AllPurposes(files)
        keys == Range(all_purposes)
        Count(p) == Cardinality({i \in 1..Len(all_purposes) : all_purposes[i] = p})
        First(p) == Min({i \in 1..Len(all_purposes) : all_purposes[i] = p})
        \* max(purpose_counts.keys(), key=...): the first key, in insertion
        \* order, of the greatest count
        main_purpose ==
            CHOOSE p \in keys :
                \A q \in keys : Count(p) > Count(q)
                                  \/ (Count(p) = Count(q) /\ First(p) <= First(q))
        project_type ==
            IF keys = {} THEN "General Application"
            ELSE CASE main_purpose = "api" -> "Web API/Backend Service"
                   [] main_purpose = "ui" -> "User Interface Application"
                   [] main_purpose = "database" -> "Data Management System"
                   [] main_purpose = "testing" -> "Testing Suite"
                   [] main_purpose = "utils" -> "Utility Library"
                   [] OTHER -> "General Application"
        \* sorted(items, key=count, reverse=True) keeps insertion order
        \* among equal counts
        Before(p, q) == Count(p) > Count(q)
                        \/ (Count(p) = Count(q) /\ First(p) < First(q))
        Nth(k) == CHOOSE p \in keys : Cardinality({q \in keys : Before(q, p)}) = k - 1
    IN  <<Line("h2", <<"U+1F50D", "Project Intelligence Summary">>), Blank,
          Line("project_type", <<project_type>>),
          Line("languages", SetToSortedSeq(languages)),
          Line("scale", <<ToString(Len(files))>> \o Thousands(TotalLines(files))),
          Line("architecture", <<analyze_architecture(pa)>>), Blank,
          Line("h3", <<"U+1F4CA", "Component Distribution">>)>>
        \o [k \in 1..Cardinality(keys) |->
               Line("component",
                    <<Str(Title(Chars(Nth(k)))), ToString(Count(Nth(k)))>>
                        \o Percentage(Count(Nth(k)), Len(all_purposes)))]

\* doc_generator.py, _generate_project_summary: kept for compatibility
generate_project_summary(pa) ==
    <<Line("text", <<"Use the new AI-powered overview instead">>)>>

CallGenerateProjectSummary ==
    /\ ucall.fn = "_generate_project_summary" /\ ~uret.done
    /\ uret' = Return(TRUE, FALSE, generate_project_summary([files |-> ucall.records]))
    /\ UNCHANGED <<ucall, readme_again, pipeVars, cliVars>>

CallDocGenerateProjectSummary ==
    /\ ucall.fn = "generate_project_summary" /\ ~uret.done
    /\ uret' = Return(TRUE, FALSE,
                      doc_generate_project_summary([files |-> ucall.records]))
    /\ UNCHANGED <<ucall, readme_again, pipeVars, cliVars>>

\* import names as files can list them: well-known libraries, standard
\* modules, a relative import, other names, one name twice
ImportPool ==
    <<"numpy", "b07", "os", "b03", ".local", "flask", "b11", "b01", "typing",
      "b09", "b05", "requests", "b13", "Zlib", "b02", "b07", "b04", "b06",
      "b08", "b10", "b12", "b14", "json", "b15">>

\* imports of a ProjectAnalysis handed to _extract_key_dependencies
MaxImports == 23

\* a stretch of the pool, as one file or cut into two files
ImportAnalyses ==
    LET File(list) == [FileInfo("m.py", "Python", 1, FALSE, <<>>, "")
                          EXCEPT !.analysis.imports = list]
        stretches == {SubSeq(ImportPool, i, j) :
                        i \in {1, 3}, j \in 0..Min({MaxImports, Len(ImportPool)})}
    IN  {<<File(q)>> : q \in stretches} \cup
        {<<File(SubSeq(q, 1, Len(q) \div 2)),
           File(SubSeq(q, Len(q) \div 2 + 1, Len(q)))>> : q \in stretches}

CallExtractKeyDependencies ==
    /\ ucall.fn = "extract_key_dependencies" /\ ~uret.done
    /\ \E deps \in extract_key_dependencies([files |-> ucall.records]) :
         uret' = Return(TRUE, FALSE, deps)
    /\ UNCHANGED <<ucall, readme_again, pipeVars, cliVars>>

CallAnalyzeArchitecture ==
    /\ ucall.fn = "analyze_architecture" /\ ~uret.done
    /\ uret' = Return(TRUE, FALSE,
                      <<analyze_architecture(AnalysisOfCounts(ucall.counts))>>)
    /\ UNCHANGED <<ucall, readme_again, pipeVars, cliVars>>

\* analyze_file on a readable file with this name and content, called on
\* its own or, as the callers of analyze_code_purpose do, ahead of it
CallAnalyzeFile ==
    /\ ucall.fn \in {"analyze_file", "analyze_code_purpose", "doc_analyze_code_purpose"}
    /\ ~uret.done /\ uret.list = <<>>
    /\ \E a \in analyze_file(ucall.path, TRUE, Chars(ucall.content)) :
         uret' = Return(ucall.fn = "analyze_file", FALSE, <<a.dict>>)
    /\ UNCHANGED <<ucall, readme_again, pipeVars, cliVars>>

\* analyze_code_purpose with no backend configured, on the analysis that
\* analyze_file has returned
CallAnalyzeCodePurpose ==
    /\ ucall.fn = "analyze_code_purpose" /\ ~uret.done /\ uret.list # <<>>
    /\ uret' = Return(TRUE, FALSE,
                      analyze_code_purpose(ucall.path, Chars(ucall.content),
                          uret.list[1], FALSE, [kind |-> "raise", text |-> ""]).value.parts)
    /\ UNCHANGED <<ucall, readme_again, pipeVars, cliVars>>

\* doc.py: analyze_code_purpose on the analysis that analyze_file has built
CallDocAnalyzeCodePurpose ==
    /\ ucall.fn = "doc_analyze_code_purpose" /\ ~uret.done /\ uret.list # <<>>
    /\ uret' = Return(TRUE, FALSE,
                      doc_analyze_code_purpose(ucall.path, Chars(ucall.content),
                                               uret.list[1]))
    /\ UNCHANGED <<ucall, readme_again, pipeVars, cliVars>>

\* sizes of the ProjectAnalysis handed to _generate_simple_file_tree: files
\* at the top, top-level directories, files of the first directory
MaxRootFiles == 6
MaxDirs == 6
MaxDirFiles == 4

\* file and directory names of those projects
TreeFilePool ==
    <<"A.PY", "Main.java", "a.py", "app.js", "app.py", "cli.py", "gen.py",
      "lib.c", "main.py", "x.py">>
TreeDirPool == <<"a", "a-b", "home", "lib", "proj", "src", "srv">>

\* file records with these relative paths (only 'path' is read)
TreeRecords(paths) == [i \in 1..Len(paths) |-> [path |-> PathString(paths[i])]]

\* n files at the top, m directories of which the first holds k files and
\* the others one, and, with r, a directory named root holding one file
TreeAnalyses ==
    LET Top(n) == [i \in 1..n |-> <<TreeFilePool[i]>>]
        InDir(m, k) ==
            [i \in 1..(IF m = 0 THEN 0 ELSE k + m - 1) |->
                IF i <= k THEN <<TreeDirPool[1], TreeFilePool[i]>>
                ELSE <<TreeDirPool[i - k + 1], "x.py">>]
        InRoot(r) == IF r THEN <<<<"root", "x.py">>>> ELSE <<>>
    IN  {TreeRecords(Top(n) \o InDir(m, k) \o InRoot(r)) :
            n \in 0..Min({MaxRootFiles, Len(TreeFilePool)}),
            m \in 0..Min({MaxDirs, Len(TreeDirPool)}),
            k \in 1..Min({MaxDirFiles, Len(TreeFilePool)}),
            r \in BOOLEAN}

CallGenerateSimpleFileTree ==
    /\ ucall.fn = "generate_simple_file_tree" /\ ~uret.done
    /\ uret' = Return(TRUE, FALSE,
                      generate_simple_file_tree([files |-> ucall.records], "proj"))
    /\ UNCHANGED <<ucall, readme_again, pipeVars, cliVars>>

\* the longest symbol list of a file handed to the detailed sections
MaxSymbols == 12

\* list lengths around the caps
DocSizes == {0, 1, 5, 6, 10, 11, MaxSymbols}

\* a file record with lists of these lengths
DocFile(path, language, nc, nf, ni) ==
    [FileInfo(path, language, 1, FALSE, <<>>, "Compact, focused implementation")
        EXCEPT !.analysis.classes = [k \in 1..nc |-> ImportPool[k]],
               !.analysis.functions = [k \in 1..nf |-> ImportPool[k]],
               !.analysis.imports = [k \in 1..ni |-> ImportPool[k]]]

\* one file of any of the sizes, or three files in two languages
DocAnalyses ==
    {<<DocFile("a.py", "Python", nc, nf, ni)>> : nc, nf, ni \in DocSizes} \cup
    {<<DocFile("a.py", "Python", 1, 11, 6), DocFile("app.js", "JavaScript", 0, 1, 0),
       DocFile("x.py", "Python", MaxSymbols, 0, 0)>>}

CallDocDetailedFileAnalysis ==
    /\ ucall.fn = "doc_detailed_file_analysis" /\ ~uret.done
    /\ uret' = Return(TRUE, FALSE,
                      doc_detailed_file_analysis([files |-> ucall.records]))
    /\ UNCHANGED <<ucall, readme_again, pipeVars, cliVars>>

\* names of the files analyze_file is called on
AnalyzedNames == {"main.py", "A.PY", "test.js", "lib.c", "Main.java"}

\* the calls a unit run can make
UnitCalls ==
    {Call(fn, <<"/", "proj", n>>, c, "") :
        fn \in {"analyze_file", "analyze_code_purpose", "doc_analyze_code_purpose"},
        n \in AnalyzedNames, c \in UnitContents} \cup
    {Call("should_ignore_path", p, "", "") : p \in UnitPaths} \cup
    {Call(fn, <<>>, c, e) :
        fn \in {"extract_functions", "extract_classes", "extract_imports",
                "describe"},
        c \in UnitContents, e \in UnitExtensions} \cup
    {[Call("analyze_architecture", <<>>, "", "") EXCEPT !.counts = n] :
        n \in UnitCounts} \cup
    {[Call(fn, <<>>, "", "") EXCEPT !.records = r] :
        fn \in {"_generate_project_summary", "generate_project_summary"},
        r \in SummaryAnalyses} \cup
    {[Call("extract_key_dependencies", <<>>, "", "") EXCEPT !.records = r] :
        r \in ImportAnalyses} \cup
    {[Call("generate_simple_file_tree", <<>>, "", "") EXCEPT !.records = r] :
        r \in TreeAnalyses} \cup
    {[Call("doc_detailed_file_analysis", <<>>, "", "") EXCEPT !.records = r] :
        r \in DocAnalyses}

-----------------------------------------------------------------------------
(* cli.main: the generate command *)

\* args.feature and args.path; kind says what is at the path: nothing
\* ("missing"), a directory ("dir") or a regular file ("file")
Args(feature, kind, path) == [feature |-> feature, kind |-> kind, path |-> path]

NoArgs == Args("none", "none", <<>>)

Features == {"docs", "structure", "graphs"}

\* Path(...).parent
Parent(path) == SubSeq(path, 1, Len(path) - 1)

\* the command lines of a run over the tree tree: a project directory, a
\* file at its top, or a path with nothing at it
CliArgs(tree) ==
    {Args(f, "dir", root) : f \in Features, root \in RootPaths} \cup
    {Args(f, "file", root \o file) :
        f \in Features, root \in RootPaths, file \in {t \in tree : Len(t) = 1}} \cup
    {Args(f, "missing", root \o <<"nowhere">>) : f \in Features, root \in RootPaths}

\* lines 30-38: the project root, the exit when it does not exist, the
\* analyzer and the generator
CliMain ==
    /\ pc = "cli"
    /\ LET root == IF cli_args.kind = "file" THEN Parent(cli_args.path)
                   ELSE cli_args.path
       IN  IF cli_args.kind = "missing"
           THEN /\ exit_code' = 1
                /\ pc' = "exited"
                /\ UNCHANGED project_path
           ELSE /\ project_path' = root
                /\ pc' = IF cli_args.feature = "graphs" THEN "graphs" ELSE "start"
                /\ UNCHANGED exit_code
    /\ UNCHANGED <<fs, gemini_model, code_files, visited, project_analysis, idx,
                   log, overview_response, ai_overview, readme, written, raised,
                   unitVars, cli_args>>

\* generate_structure, lines 259-262, after _analyze_project:
\* VisualGraphGenerator has no method create_project_structure_text
CliStructure ==
    /\ pc = "analyzed" /\ cli_args.feature = "structure"
    /\ pc' = "raised"
    /\ raised' = "AttributeError"
    /\ UNCHANGED <<project_path, fs, gemini_model, code_files, visited,
                   project_analysis, idx, log, overview_response, ai_overview,
                   readme, written, unitVars, cliVars>>

\* generate_file_graphs(args.path): an error text when the target cannot be
\* analysed (a directory, an unreadable file); otherwise the call of
\* create_graph_zip, which is not a method of VisualGraphGenerator (its def
\* sits inside another method, after the return)
CliGraphs ==
    /\ pc = "graphs"
    /\ \E readable \in BOOLEAN, text \in FileContents :
         \E a \in analyze_file(cli_args.path,
                                readable /\ cli_args.kind = "file", Chars(text)) :
            IF a.dict.error
            THEN /\ pc' = "done"
                 /\ UNCHANGED raised
            ELSE /\ pc' = "raised"
                 /\ raised' = "AttributeError"
    /\ UNCHANGED <<project_path, fs, gemini_model, code_files, visited,
                   project_analysis, idx, log, overview_response, ai_overview,
                   readme, written, unitVars, cliVars>>

\* main returns (exit code 0) or an exception reaches the top (exit code 1)
CliExit ==
    /\ pc \in {"done", "raised"}
    /\ exit_code' = IF pc = "done" THEN 0 ELSE 1
    /\ pc' = "exited"
    /\ UNCHANGED <<project_path, fs, gemini_model, code_files, visited,
                   project_analysis, idx, log, overview_response, ai_overview,
                   readme, written, raised, unitVars, cli_args>>

-----------------------------------------------------------------------------
(* Specifications *)

Idle ==
    /\ pc = "start"
    /\ code_files = <<>>
    /\ visited = {}
    /\ project_analysis = EmptyAnalysis
    /\ idx = 0
    /\ log = <<>>
    /\ overview_response = NoResponse
    /\ ai_overview = NoOverview
    /\ readme = <<>>
    /\ written = FALSE
    /\ raised = "none"

\* a run of generate_readme on some project tree
Init ==
    /\ project_path \in RootPaths
    /\ fs \in {t \in SUBSET FileUniverse : Cardinality(t) <= MaxFiles}
    /\ gemini_model \in BOOLEAN
    /\ Idle
    /\ ucall = NoCall
    /\ uret = NotReturned
    /\ readme_again = <<>>
    /\ cli_args = NoArgs
    /\ exit_code = -1

Next ==
    \/ StartAnalysis
    \/ AnalyzeNextFile
    \/ GenerateOverview
    \/ BuildReadme

Spec == Init /\ [][Next]_vars

\* a run over a tree of at most MaxLiveFiles files
LiveInit == Init /\ Cardinality(fs) <= MaxLiveFiles

\* the run is one thread of one process: it takes its next step whenever
\* it has one
LiveSpec == LiveInit /\ [][Next]_vars /\ WF_vars(Next)

\* _build_comprehensive_readme called once more on the ProjectAnalysis and
\* the overview of a finished run, with no backend call in between; the
\* clock has its own reading at line 129
RenderAgain ==
    /\ pc = "done" /\ readme_again = <<>>
    /\ \E now \in Clock, deps \in extract_key_dependencies(project_analysis) :
         readme_again' = build_comprehensive_readme(Name(project_path),
                             project_analysis, ai_overview, deps, now).value
    /\ UNCHANGED <<ucall, uret, pipeVars, cliVars>>

RenderNext ==
    \/ Next
    \/ RenderAgain

\* a run of generate_readme followed by a second rendering
SpecRender == Init /\ [][RenderNext]_vars

\* a run of the generate command
CliInit ==
    /\ project_path = <<>>
    /\ fs \in {t \in SUBSET FileUniverse : Cardinality(t) <= MaxFiles}
    /\ gemini_model \in BOOLEAN
    /\ pc = "cli"
    /\ code_files = <<>>
    /\ visited = {}
    /\ project_analysis = EmptyAnalysis
    /\ idx = 0
    /\ log = <<>>
    /\ overview_response = NoResponse
    /\ ai_overview = NoOverview
    /\ readme = <<>>
    /\ written = FALSE
    /\ raised = "none"
    /\ ucall = NoCall
    /\ uret = NotReturned
    /\ readme_again = <<>>
    /\ cli_args \in CliArgs(fs)
    /\ exit_code = -1

CliNext ==
    \/ CliMain
    \/ StartAnalysis
    \/ AnalyzeNextFile
    \/ (cli_args.feature = "docs" /\ GenerateOverview)
    \/ (cli_args.feature = "docs" /\ BuildReadme)
    \/ CliStructure
    \/ CliGraphs
    \/ CliExit

SpecCli == CliInit /\ [][CliNext]_vars

\* one call of should_ignore_path or of an extractor
UnitInit ==
    /\ project_path = <<"/">>
    /\ fs = {}
    /\ gemini_model = FALSE
    /\ Idle
    /\ ucall \in UnitCalls
    /\ uret = NotReturned
    /\ readme_again = <<>>
    /\ cli_args = NoArgs
    /\ exit_code = -1

UnitNext ==
    \/ CallShouldIgnorePath
    \/ CallExtractFunctions
    \/ CallExtractClasses
    \/ CallExtractImports
    \/ CallDescribeTwice
    \/ CallAnalyzeArchitecture
    \/ CallGenerateProjectSummary
    \/ CallDocGenerateProjectSummary
    \/ CallExtractKeyDependencies
    \/ CallAnalyzeFile
    \/ CallAnalyzeCodePurpose
    \/ CallDocAnalyzeCodePurpose
    \/ CallGenerateSimpleFileTree
    \/ CallDocDetailedFileAnalysis

SpecUnit == UnitInit /\ [][UnitNext]_vars

-----------------------------------------------------------------------------
(* Properties *)

\* the analysis loop has run to its end
Analyzed == pc \in {"analyzed", "overview", "done"}

\* the records of the aggregate, by position
Files == project_analysis.files

\* the log entry of the file a record was made from
EntryOf(record) ==
    CHOOSE e \in Range(log) :
        PathString(RelativeTo(e.path, project_path)) = record.path

\* C1: in every ProjectAnalysis that project analysis produces, total_files
\* equals the number of entries of files, whichever reads failed.
C1_TotalFilesIsLenFiles ==
    Analyzed => project_analysis.total_files = Len(Files)

\* C2: get_code_files returns no file with a component in IGNORE_DIRS or a
\* name in IGNORE_FILES, and the walk descends into no directory that is
\* named in IGNORE_DIRS (or lies below one).
C2_ExcludedNeverScanned ==
    /\ \A i \in 1..Len(code_files) :
         /\ \A j \in 1..(Len(code_files[i]) - 1) :
                code_files[i][j] \notin IGNORE_DIRS
         /\ Name(code_files[i]) \notin IGNORE_FILES
    /\ \A d \in visited : \A j \in 1..Len(d) : d[j] \notin IGNORE_DIRS

\* C2 witness: a tree with node_modules/ignored.js next to a file that is
\* scanned, after the walk
C2_Witness ==
    /\ pc = "analyze"
    /\ <<"node_modules", "ignored.js">> \in fs
    /\ code_files = <<project_path \o <<"a.py">>>>
    /\ visited = {<<>>}

\* C3: wherever the root lies, a file with no ignored directory between the
\* root and itself is returned iff its lowercased extension is supported
\* and its name is not in IGNORE_FILES.
C3_IncludedIffSupported ==
    pc # "start" =>
        \A f \in fs :
            (\A j \in 1..(Len(f) - 1) : f[j] \notin IGNORE_DIRS) =>
                ((project_path \o f) \in Range(code_files)
                    <=> (SupportedSuffix(f) /\ Name(f) \notin IGNORE_FILES))

\* C4 as claimed: adjacent results ascend in the order of their full path
\* strings.
C4_SortedByPathString ==
    \A i \in 1..(Len(code_files) - 1) :
        \/ PathString(code_files[i]) = PathString(code_files[i + 1])
        \/ SeqLess(PathString(code_files[i]), PathString(code_files[i + 1]))

\* C4 amended: adjacent results ascend in the order of their component
\* lists, each component compared as a string; under sibling directories
\* 'a' and 'a-b' the files of 'a' come first.
C4_SortedByParts ==
    /\ \A i \in 1..(Len(code_files) - 1) :
           PartsLess(code_files[i], code_files[i + 1])
    /\ \A i, j \in 1..Len(code_files) :
           (/\ Len(code_files[i]) = Len(project_path) + 2
            /\ Len(code_files[j]) = Len(project_path) + 2
            /\ code_files[i][Len(project_path) + 1] = "a"
            /\ code_files[j][Len(project_path) + 1] = "a-b") => i < j

C4_Witness ==
    code_files = <<project_path \o <<"a", "x.py">>,
                   project_path \o <<"a-b", "x.py">>>>

\* C5: should_ignore_path(path) is true iff some segment of path is in
\* IGNORE_DIRS or the final segment is in IGNORE_FILES: true for
\* node_modules/test.js and README.md, false for src/main.py.
C5_ShouldIgnorePath ==
    (uret.done /\ ucall.fn = "should_ignore_path") =>
        /\ uret.bool <=>
              \/ \E i \in 1..Len(ucall.path) : ucall.path[i] \in IGNORE_DIRS
              \/ ucall.path[Len(ucall.path)] \in IGNORE_FILES
        /\ ucall.path = <<"node_modules", "test.js">> => uret.bool
        /\ ucall.path = <<"README.md">> => uret.bool
        /\ ucall.path = <<"src", "main.py">> => ~uret.bool

C5_Witness ==
    /\ uret.done /\ uret.bool
    /\ ucall.fn = "should_ignore_path"
    /\ ucall.path = <<"src", "build">>

\* C6: the list an extractor returns holds no name twice, also when the
\* name is matched several times or by several patterns.
C6_NoDuplicateSymbols ==
    (uret.done /\ ucall.fn \in {"extract_functions", "extract_classes",
                                "extract_imports"}) =>
        \A i, j \in 1..Len(uret.list) :
            uret.list[i] = uret.list[j] => i = j

\* C6 witness: 'os' matched by both import patterns, returned once
C6_Witness ==
    /\ uret.done
    /\ ucall.fn = "extract_imports"
    /\ ucall.content = "from os import os\nimport flask"
    /\ ucall.extension = ".py"
    /\ uret.list = <<"flask", "os">>

\* C7: a root holding a.py (def foo, class Bar) and node_modules/ignored.js
\* analyses to total_files = 1 and one record, for a.py, with functions
\* {foo} and classes {Bar}.
C7_EndToEndScenario ==
    (/\ Analyzed
     /\ fs = {<<"a.py">>, <<"node_modules", "ignored.js">>}
     /\ \A e \in Range(log) : e.readable /\ e.text = "def foo():\nclass Bar:")
    => /\ project_analysis.total_files = 1
       /\ Len(Files) = 1
       /\ Files[1].path = Chars("a.py")
       /\ Files[1].analysis.functions = <<"foo">>
       /\ Files[1].analysis.classes = <<"Bar">>

\* C8: with any reads failing the analysis runs to its end; the records
\* are those of the files that were read, one each, in scanner order.
C8_ReadFailuresDropped ==
    /\ raised # "IOError"
    /\ pc \in {"analyze", "analyzed", "overview", "done"} =>
         /\ Len(log) = idx - 1
         /\ \A k \in 1..Len(log) : log[k].path = code_files[k]
         /\ LET read == SelectSeq(log, LAMBDA e : e.readable)
            IN  /\ Len(Files) = Len(read)
                /\ \A k \in 1..Len(read) :
                       Files[k].path =
                           PathString(RelativeTo(read[k].path, project_path))

\* C8 witness: the first of two scanned files could not be read, the
\* second has its record
C8_Witness ==
    /\ pc = "analyzed"
    /\ Len(log) = 2 /\ ~log[1].readable /\ log[2].readable
    /\ Len(Files) = 1

\* C9: when the backend is present and its call raises, the description
\* stored for the file is the one analyze_code_purpose returns for the same
\* file with the backend absent.
C9_BackendFailureFallsBack ==
    \A k \in 1..Len(Files) :
        LET e == EntryOf(Files[k])
            before == [Files[k].analysis EXCEPT !.ai_description = NoDescription]
        IN  e.call = "raise" =>
                \A outcome \in FileOutcomes :
                    Files[k].analysis.ai_description =
                        analyze_code_purpose(e.path, Chars(e.text), before,
                                             FALSE, outcome).value

\* C9 witness: a file with a function and a class whose backend call raised
C9_Witness ==
    \E k \in 1..Len(Files) :
        /\ EntryOf(Files[k]).call = "raise"
        /\ Files[k].analysis.functions = <<"foo">>
        /\ Files[k].analysis.ai_description.by = "rules"

\* C10: generate_readme returns and writes a document whatever the
\* collaborators do.
C10_DocumentAlwaysProduced ==
    /\ pc # "raised"
    /\ pc = "done" => written /\ readme # <<>>

\* the overview step has run
OverviewDone == pc \in {"overview", "done", "raised"}

\* the backend answered the overview prompt with a text that is not the JSON
\* object the prompt asks for: prose, or JSON of another shape
NonConforming ==
    /\ gemini_model
    /\ overview_response.kind = "text"
    /\ overview_response.value # GoodObject

\* C11: when the backend's text does not conform to the expected format,
\* generate_project_overview returns what _generate_fallback_overview returns
\* for the same analysis and root.
C11_NonConformingGivesFallback ==
    OverviewDone /\ NonConforming
        => ai_overview \in generate_fallback_overview(project_analysis, fs)

\* C12: a backend call that never returns is cut off by a timeout: a run
\* waiting in generate_content eventually leaves the call (and goes on along
\* the fallback path) instead of waiting forever.
C12_BlockedCallIsCutOff == (pc = "blocked") ~> (pc # "blocked")

\* C13: with no backend, two independent runs of analysis and description on
\* the same file content give the same description.
C13_DescriptionsAgree ==
    uret.done /\ ucall.fn = "describe" => uret.list[1] = uret.list[2]

\* C14: rendering the same ProjectAnalysis and overview twice gives the
\* same text, whatever time passes between the two renderings.
C14_RenderTwiceSameText == readme_again # <<>> => readme_again = readme

\* totals over the files of the analysis an architecture call was made on
RECURSIVE TotalOf(_, _)
TotalOf(counts, k) ==
    IF counts = <<>> THEN 0 ELSE Head(counts)[k] + TotalOf(Tail(counts), k)

\* the call was made on a project of these totals
ArchitectureCallOn(classes, functions) ==
    /\ uret.done /\ ucall.fn = "analyze_architecture"
    /\ TotalOf(ucall.counts, 1) = classes
    /\ TotalOf(ucall.counts, 2) = functions

\* C15 as claimed: classes=4, functions=10 is object-oriented; classes=1,
\* functions=10 is functional; classes=2, functions=5 is mixed.
C15_ClassificationAsClaimed ==
    /\ ArchitectureCallOn(4, 10)
          => uret.list = <<"Object-Oriented with strong class hierarchy">>
    /\ ArchitectureCallOn(1, 10)
          => uret.list = <<"Functional/Procedural programming style">>
    /\ ArchitectureCallOn(2, 5)
          => uret.list = <<"Mixed architectural patterns">>

\* C15 as amended: classes=4, functions=10 is object-oriented; classes=1,
\* functions=10 is functional; classes=2, functions=5 is object-oriented
\* (2 > 0.3 * 5); classes=0, functions=0 is mixed.
C15_Classification ==
    /\ ArchitectureCallOn(4, 10)
          => uret.list = <<"Object-Oriented with strong class hierarchy">>
    /\ ArchitectureCallOn(1, 10)
          => uret.list = <<"Functional/Procedural programming style">>
    /\ ArchitectureCallOn(2, 5)
          => uret.list = <<"Object-Oriented with strong class hierarchy">>
    /\ ArchitectureCallOn(0, 0)
          => uret.list = <<"Mixed architectural patterns">>

\* the two-file project with 2 + 2 classes and 5 + 5 functions was classified
C15_Witness ==
    /\ ArchitectureCallOn(4, 10)
    /\ Len(ucall.counts) = 2

\* the tree holds no file the scanner supports
NoSupportedFiles == \A f \in fs : ~SupportedSuffix(f) \/ should_ignore_path(f)

\* the text has this line
HasLine(text, line) == \E i \in 1..Len(text) : text[i] = line

\* C16: for a root with no supported files the analysis has total_files = 0
\* and no records, and the run still ends with a non-empty document that
\* carries the project name and a file count of 0.
C16_EmptyProjectDocument ==
    NoSupportedFiles =>
        /\ pc \in {"analyzed", "overview", "done", "raised"}
              => project_analysis.total_files = 0 /\ Files = <<>>
        /\ pc # "raised"
        /\ pc = "done"
              => /\ readme # <<>>
                 /\ HasLine(readme, Line("h1", <<Name(project_path)>>))
                 /\ HasLine(readme, Line("files", <<"0">>))

\* a summary of the analysis of test_generate_project_summary was returned
\* (one Python file of 100 lines whose description lists purpose 'utils')
SummaryOfTestAnalysis ==
    /\ uret.done
    /\ ucall.fn \in {"_generate_project_summary", "generate_project_summary"}
    /\ ucall.records = <<TestFileInfo>>

\* C17: the summary of that analysis carries 'Project Type: Utility
\* Library', 'Languages: Python' and 'Scale: 1 files, 100 lines of code'.
C17_SummaryOfTestAnalysis ==
    SummaryOfTestAnalysis =>
        /\ HasLine(uret.list, Line("project_type", <<"Utility Library">>))
        /\ HasLine(uret.list, Line("languages", <<"Python">>))
        /\ HasLine(uret.list, Line("scale", <<"1", "100">>))

\* C18: the generate command exits with a non-zero code, with no analysis
\* run, exactly when the target does not exist, and with code 0 for every
\* existing target and feature; the parent of a file target is the root.
C18_ExitCodes ==
    /\ pc = "exited" => (exit_code # 0 <=> cli_args.kind = "missing")
    /\ pc = "exited" /\ cli_args.kind = "missing"
          => log = <<>> /\ visited = {} /\ project_analysis = EmptyAnalysis
    /\ cli_args.kind = "file" /\ pc \notin {"cli", "exited"}
          => project_path = Parent(cli_args.path)

\* the text has the line '## <title>'
HasSection(text, title) == HasLine(text, Line("h2", <<title>>))

\* C19: the document generate_readme returns has the header '# <project
\* name>' and the headings '## Overview', '## Installation',
\* '## Dependencies' and '## File Analysis'.
C19_SectionHeadings ==
    pc = "done" =>
        /\ HasLine(readme, Line("h1", <<Name(project_path)>>))
        /\ HasSection(readme, "Overview")
        /\ HasSection(readme, "Installation")
        /\ HasSection(readme, "Dependencies")
        /\ HasSection(readme, "File Analysis")

\* the imports of the analysis of a key-dependency call that are neither
\* relative nor one of os, sys, re, json, typing
Qualifying ==
    {imp \in AllImports(ucall.records) :
        Chars(imp)[1] # 46 /\ imp \notin {"os", "sys", "re", "json", "typing"}}

\* C20: the key-dependency list has no duplicates, only qualifying imports,
\* the well-known libraries before every other import, the others in
\* ascending order, at most 15 entries; when more qualify, the well-known
\* ones and then the smallest of the others are the ones kept.
C20_KeyDependencies ==
    uret.done /\ ucall.fn = "extract_key_dependencies" =>
        LET deps == uret.list
            n == Len(deps)
            Known(d) == d \in PriorityLibraries
        IN  /\ \A i, j \in 1..n : i # j => deps[i] # deps[j]
            /\ Range(deps) \subseteq Qualifying
            /\ \A i, j \in 1..n : Known(deps[i]) /\ ~Known(deps[j]) => i < j
            /\ \A i, j \in 1..n :
                  i < j /\ ~Known(deps[i]) /\ ~Known(deps[j])
                      => SeqLess(Chars(deps[i]), Chars(deps[j]))
            /\ n = Min({15, Cardinality(Qualifying)})
            /\ \A q \in Qualifying \ Range(deps) :
                  /\ ~Known(q)
                  /\ \A d \in Range(deps) :
                        ~Known(d) => SeqLess(Chars(d), Chars(q))

\* a call on more than 15 qualifying imports, a well-known library and a
\* name that sorts before it among them, and some import left out
C20_Witness ==
    /\ uret.done /\ ucall.fn = "extract_key_dependencies"
    /\ Cardinality(Qualifying) > 15
    /\ Len(uret.list) = 15
    /\ uret.list[1] \in PriorityLibraries
    /\ "b01" \in Range(uret.list)
    /\ Len(ucall.records) = 2

\* the number of newline characters of a text
Newlines(text) == Cardinality({i \in 1..Len(Chars(text)) : Chars(text)[i] = 10})

\* a call of analyze_file has returned
AnalyzeFileReturned == ucall.fn = "analyze_file" /\ uret.done

\* C21: for every file content that is read, the recorded line count is the
\* number of newline characters of the content plus one; a content ending in
\* a newline counts the empty segment after it, and the count is never 0.
C21_LineCount ==
    AnalyzeFileReturned =>
        /\ uret.list[1].lines = Newlines(ucall.content) + 1
        /\ uret.list[1].lines >= 1
        /\ ucall.content = "" => uret.list[1].lines = 1

\* analyze_file has returned 3 for a content of two lines that ends in a
\* newline
C21_Witness ==
    /\ AnalyzeFileReturned
    /\ ucall.content = "def f(x):\ndef f(y):\n"
    /\ uret.list[1].lines = 3

\* the thresholds that some content of a run reaches
ContentThresholds == 1..Max({Len(Chars(t)) : t \in FileContents})

\* C22: the backend is called for a file only when the backend is present
\* and the length of the file's content is below the fixed threshold; no call
\* is made for a content at or above the threshold.
C22_BackendOnlyBelowThreshold ==
    \E threshold \in ContentThresholds :
        \A k \in 1..Len(log) :
            log[k].call # "none" =>
                gemini_model /\ Len(Chars(log[k].text)) < threshold

\* a call of one of the two analyze_code_purpose has returned
PurposeCallReturned ==
    ucall.fn \in {"analyze_code_purpose", "doc_analyze_code_purpose"} /\ uret.done

\* the purposes that match the content, the stem or the imports of the call
DetectedOfCall ==
    detected_purposes(Chars(ucall.content), Stem(ucall.path),
                      ImportMatches(Chars(ucall.content), Suffix(ucall.path)))

\* the fixed phrases of a purpose: purpose_desc of either engine
PurposePhrases(purpose) ==
    {generate_rule_based_description(<<>>, <<>>, <<>>, <<>>, <<>>, <<purpose>>)[1].text,
     doc_generate_description(<<>>, <<>>, <<>>, <<>>, <<>>, <<purpose>>, <<>>)[1].text}

\* C23: the rule-based description of a file starts with a purpose part: the
\* phrase of the primary detected purpose when a purpose category matches the
\* content, the stem or the imports, the general phrase when none matches;
\* no purpose part comes after the first part.
C23_StartsWithPurpose ==
    PurposeCallReturned =>
        /\ uret.list # <<>>
        /\ uret.list[1].part \in {"Purpose", "Primary Function"}
        /\ IF DetectedOfCall # <<>>
           THEN uret.list[1].text \in PurposePhrases(DetectedOfCall[1])
           ELSE uret.list[1].text \in {"General purpose code", "General module"}
        /\ \A k \in 2..Len(uret.list) :
              uret.list[k].part \notin {"Purpose", "Primary Function"}

\* the packaged analyze_code_purpose has returned the generic line
GenericLineReturned ==
    /\ ucall.fn = "analyze_code_purpose" /\ uret.done
    /\ Len(uret.list) = 1
    /\ uret.list[1].text = "General module"

\* C24: when the rule-based description has no populated part, its single
\* line names the language that _detect_language gives for the extension of
\* the file, for every supported extension.
C24_GenericLineNamesLanguage ==
    GenericLineReturned =>
        uret.list[1].deps = <<detect_language(Suffix(ucall.path))>>

\* every record of the aggregate carries a description
AllDescribed ==
    \A k \in 1..Len(Files) : Files[k].analysis.ai_description # NoDescription

\* a step leaves the records that are in the aggregate as they are
RecordsKept ==
    /\ Len(project_analysis'.files) >= Len(Files)
    /\ \A k \in 1..Len(Files) : project_analysis'.files[k] = Files[k]

\* C25: after project analysis every file record has a description, for
\* every supported extension; a record enters the aggregate with its
\* description and no later step changes the description or any other field.
C25_EveryRecordDescribedOnce ==
    /\ [](Analyzed => AllDescribed)
    /\ [][RecordsKept]_vars

\* a call of _generate_simple_file_tree has returned
TreeReturned == ucall.fn = "generate_simple_file_tree" /\ uret.done

\* the relative paths of the call, as parts
TreePaths == [i \in 1..Len(ucall.records) |-> SplitPath(ucall.records[i].path)]

\* the files at the top of the project, and the top-level directories
RootLevel == {i \in 1..Len(TreePaths) : Len(TreePaths[i]) = 1}
TopDirs == {TreePaths[i][1] : i \in (1..Len(TreePaths)) \ RootLevel}
FilesIn(d) == {i \in (1..Len(TreePaths)) \ RootLevel : TreePaths[i][1] = d}

\* positions of the lines of one kind in the returned tree
LinesOf(kind) == {i \in 1..Len(uret.list) : uret.list[i].k = kind}

\* the line after position i states that n entries are not shown
Overflow(i, n) ==
    /\ i + 1 <= Len(uret.list)
    /\ uret.list[i + 1].k = "more"
    /\ uret.list[i + 1].s = <<ToString(n)>>

\* the file lines that follow the directory line at position i
ShownUnder(i) ==
    {j \in LinesOf("dirfile") : j > i /\ \A h \in (i + 1)..j : uret.list[h].k = "dirfile"}

\* where the group of the directory line at position i ends
GroupEnd(i) ==
    i + Cardinality(ShownUnder(i))
      + (IF Overflow(i + Cardinality(ShownUnder(i)),
                     Cardinality(FilesIn(uret.list[i].s[1])) - 3) THEN 1 ELSE 0)

\* C26: in the simplified file tree every group shows at most its cap of
\* entries (5 files at the top, 3 files in a directory, 5 directories), and
\* every group that holds more than its cap is followed by a line that
\* states how many entries are not shown.
C26_CapsAndOverflowLines ==
    TreeReturned =>
        /\ Cardinality(LinesOf("rootfile")) <= 5
        /\ Cardinality(RootLevel) > 5 =>
              Overflow(Max(LinesOf("rootfile")), Cardinality(RootLevel) - 5)
        /\ \A i \in LinesOf("dir") :
              /\ Cardinality(ShownUnder(i)) <= 3
              /\ Cardinality(FilesIn(uret.list[i].s[1])) > 3 =>
                    Overflow(i + Cardinality(ShownUnder(i)),
                             Cardinality(FilesIn(uret.list[i].s[1])) - 3)
        /\ Cardinality(LinesOf("dir")) <= 5
        /\ Cardinality(TopDirs) > 5 =>
              Overflow(GroupEnd(Max(LinesOf("dir"))), Cardinality(TopDirs) - 5)

\* the names on the root-level lines of the returned tree
ListedAtRoot == {uret.list[i].s[1] : i \in LinesOf("rootfile")}

\* C30: in the simplified file tree a file is listed at root level only if
\* its relative path has a single component, and a top-level directory named
\* root has a directory line of its own, like every other directory among
\* the first five.
C30_RootLevelOnlySingleComponent ==
    TreeReturned =>
        /\ Cardinality(LinesOf("rootfile")) <= Cardinality(RootLevel)
        /\ ListedAtRoot \subseteq {TreePaths[i][1] : i \in RootLevel}
        /\ ("root" \in TopDirs /\ Cardinality(TopDirs) <= 5) =>
              \E i \in LinesOf("dir") : uret.list[i].s = <<"root">>

\* a call of the detailed file analysis has returned
DetailsReturned == ucall.fn = "doc_detailed_file_analysis" /\ uret.done

\* the record whose section holds line i: the one named by the last file
\* heading before i
RecordOfLine(i) ==
    LET h == Max({j \in 1..i : uret.list[j].k = "h4"})
    IN  CHOOSE r \in Range(ucall.records) : r.path = uret.list[h].s[2]

\* whether a rendered list ends with the suffix, and the entries before it
HasSuffix(s) == Len(s) >= 3 /\ s[Len(s) - 2] = "+" /\ s[Len(s)] = "more"
Entries(s) == IF HasSuffix(s) THEN SubSeq(s, 1, Len(s) - 3) ELSE s

\* a list of total entries is rendered as s under the cap
RenderedUnder(s, total, cap) ==
    /\ Len(Entries(s)) <= cap
    /\ total > cap => HasSuffix(s) /\ s[Len(s) - 1] = ToString(total - cap)
    /\ total <= cap => ~HasSuffix(s)

\* the caps that a class list of the calls exceeds
ClassCaps == 1..(MaxSymbols - 1)

\* C27: in the detailed sections each symbol list of a file (classes,
\* functions, imports) shows at most its fixed cap of entries; a list with N
\* entries beyond its cap ends with the suffix '+N more', and no suffix is
\* there when nothing is left out.
C27_SymbolListsCapped ==
    DetailsReturned =>
        \A i \in 1..Len(uret.list) :
            LET line == uret.list[i]
            IN  /\ line.k = "functions" =>
                      RenderedUnder(line.s, Len(RecordOfLine(i).analysis.functions), 10)
                /\ line.k = "imports" =>
                      RenderedUnder(line.s, Len(RecordOfLine(i).analysis.imports), 5)
                /\ line.k = "classes" =>
                      \E cap \in ClassCaps :
                          RenderedUnder(line.s, Len(RecordOfLine(i).analysis.classes), cap)

\* C28: extraction takes the pattern entry of the extension without regard
\* to letter case, as the scanner and the language lookup do: the functions,
\* classes and imports of a file are those its content gives under the
\* lower-cased extension (for A.PY those of a .py file).
C28_ExtractionIgnoresCase ==
    AnalyzeFileReturned =>
        LET content == Chars(ucall.content)
            extension == LowerCase(Suffix(ucall.path))
        IN  /\ Range(uret.list[1].functions) = Range(FunctionMatches(content, extension))
            /\ Range(uret.list[1].classes) = Range(ClassMatches(content, extension))
            /\ Range(uret.list[1].imports) = Range(ImportMatches(content, extension))

\* a call of _analyze_architecture has returned
ArchitectureReturned == uret.done /\ ucall.fn = "analyze_architecture"

\* the totals of the call
TotalClasses == TotalOf(ucall.counts, 1)
TotalFunctions == TotalOf(ucall.counts, 2)

\* C29 as claimed: 'Mixed' is returned only when both totals are 0; every
\* project with at least one class is object-oriented, every project with
\* no class and at least one function is functional.
C29_MixedOnlyWhenEmptyAsClaimed ==
    ArchitectureReturned =>
        /\ uret.list = <<"Mixed architectural patterns">>
              => TotalClasses = 0 /\ TotalFunctions = 0
        /\ TotalClasses >= 1
              => uret.list = <<"Object-Oriented with strong class hierarchy">>
        /\ TotalClasses = 0 /\ TotalFunctions >= 1
              => uret.list = <<"Functional/Procedural programming style">>

\* C29 as amended: 'Mixed' is returned exactly when both totals are 0; a
\* project is object-oriented exactly when its classes exceed 0.3 times its
\* functions, and functional otherwise, so a project with classes that are
\* at most 0.3 times its functions is functional.
C29_MixedOnlyWhenEmpty ==
    ArchitectureReturned =>
        /\ uret.list = <<"Mixed architectural patterns">>
              <=> TotalClasses = 0 /\ TotalFunctions = 0
        /\ uret.list = <<"Object-Oriented with strong class hierarchy">>
              <=> 10 * TotalClasses > 3 * TotalFunctions
        /\ (TotalFunctions >= 1 /\ 10 * TotalClasses <= 3 * TotalFunctions)
              => uret.list = <<"Functional/Procedural programming style">>

\* a project with a class was classified functional
C29_Witness ==
    /\ ArchitectureReturned
    /\ TotalClasses >= 1
    /\ uret.list = <<"Functional/Procedural programming style">>

====
